---- MODULE Spec2Model ----
(***************************************************************************)
(* Investor vesting distributor (NEAR, near-sdk-js): the InvestorVesting   *)
(* contract, the MockFungibleToken it pays through, and the receipts that  *)
(* travel between the two.                                                 *)
(*                                                                         *)
(* Token quantities, durations and timestamps are decimal strings of       *)
(* BigInt values in the source; they are integers here.  An optional       *)
(* argument (undefined in the source) is the empty sequence, a supplied    *)
(* one a one-element sequence.                                             *)
(*                                                                         *)
(* A contract method is an operator from the contract's fields to a result *)
(* [err, st, out]: err is the message of the Error the method throws (OK   *)
(* when it returns), st the fields as the method left them, out what it    *)
(* returns.  near-sdk-js writes the fields back only after the method      *)
(* returned, and the runtime drops the storage writes of a receipt that    *)
(* panicked: Commit keeps st only when err = OK.                           *)
(***************************************************************************)
EXTENDS Integers, Sequences, FiniteSets, Bags, TLC

\* ------------------------------------------------------------------ accounts
Owner == "owner"
Token == "token"
Self == "vesting"
Alice == "alice"
Bob == "bob"
Callers == {Owner, Token, Self, Alice, Bob}
InvestorIds == {Alice, Bob}

\* ------------------------------------------------------------ program constants
ONE_YOCTO == 1
NO_DEPOSIT == 0
BASIS_POINTS_DENOMINATOR == 10000

\* ---------------------------------------------------------------------- bounds
MaxTime == 2
MaxDeposited == 4
MaxReceipts == 2
MaxSupply == 6
MaxToppedUp == 3

MaxVestingTime == 7

\* ---------------------------------------------------------------------- helpers
OK == "ok"
None == <<>>
Some(v) == <<v>>
IsSome(o) == Len(o) > 0
Get(o) == o[1]
\* a ?? b
OrElse(o, d) == IF IsSome(o) THEN Get(o) ELSE d

Has(m, k) == k \in DOMAIN m
Put(m, k, v) == [x \in (DOMAIN m) \cup {k} |-> IF x = k THEN v ELSE m[x]]
EmptyMap == [x \in {} |-> 0]

Abs(a) == IF a < 0 THEN -a ELSE a
\* BigInt division truncates toward zero
BigIntDiv(a, b) ==
    IF (a >= 0) = (b > 0) THEN Abs(a) \div Abs(b) ELSE -(Abs(a) \div Abs(b))

Result(e, s, o) == [err |-> e, st |-> s, out |-> o]
Throw(e, s) == Result(e, s, None)
Return(s, o) == Result(OK, s, o)
\* mutant: what a method wrote before it threw is stored
Commit_KeepsWrites(s, r) == r.st
Commit(s, r) == IF r.err = OK THEN r.st ELSE s
NoError == [op |-> "", err |-> OK]
Outcome(op, r) == IF r.err = OK THEN NoError ELSE [op |-> op, err |-> r.err]

\* ------------------------------------------------------------- InvestorVesting
NewContract ==
    [ initialized |-> FALSE,
      owner |-> "",
      tokenAccountId |-> "",
      tgeTimestampNs |-> 0,
      initialClaimBasisPoints |-> 0,
      initialClaimAvailableTimestampNs |-> 0,
      totalDeposited |-> 0,
      totalClaimed |-> 0,
      totalWithdrawn |-> 0,
      poolBalance |-> 0,
      groups |-> EmptyMap,
      investors |-> EmptyMap ]

\* mutant: the owner's methods are open to every caller
assertOwner_Anyone(s, caller) == TRUE
assertOwner(s, caller) == caller = s.owner
\* mutant: any attached deposit of at least 1 yoctoNEAR will do
assertOneYocto_AtLeast(deposit) == deposit >= ONE_YOCTO
assertOneYocto(deposit) == deposit = ONE_YOCTO
\* mutant: the callbacks are open to every caller
assertSelf_Anyone(caller) == TRUE
assertSelf(caller) == caller = Self
\* mutant: the funding hook is open to every caller
assertTokenCaller_Anyone(s, caller) == TRUE
assertTokenCaller(s, caller) == caller = s.tokenAccountId

\* mutant: basis points are taken of 1000 instead of 10000
basisPointsOf_PerMille(total, bps) == BigIntDiv(total * bps, 1000)

\* (total * bps) / BASIS_POINTS_DENOMINATOR
basisPointsOf(total, bps) == BigIntDiv(total * bps, BASIS_POINTS_DENOMINATOR)

\* mutant: the global initial claim waits for the cliff of the group as well
initialClaimAvailable_AfterCliff(timestamp, initialClaimStart, cliffEnd) ==
    timestamp >= initialClaimStart /\ timestamp >= cliffEnd

\* mutant: the global initial claim is available until its timestamp, not from it
initialClaimAvailable_Until(timestamp, initialClaimStart, cliffEnd) ==
    timestamp <= initialClaimStart

\* mutant: the global initial claim is available at any time
initialClaimAvailable_Always(timestamp, initialClaimStart, cliffEnd) == TRUE

\* timestamp >= initialClaimStart; the end of the cliff, start + cliff, plays no part
initialClaimAvailable(timestamp, initialClaimStart, cliffEnd) == timestamp >= initialClaimStart

\* mutant: the cliff is not looked at
beforeCliff_Never(timestamp, cliffEnd) == FALSE

\* timestamp < start + cliff
beforeCliff(timestamp, cliffEnd) == timestamp < cliffEnd

\* mutant: the last instant of the vesting period still vests linearly
fullyVested_Late(elapsed, vesting) == elapsed > vesting

\* elapsed >= vesting
fullyVested(elapsed, vesting) == elapsed >= vesting

\* mutant: the linear part is rounded up
linearVested_RoundsUp(linearPortionBase, elapsed, vesting) ==
    BigIntDiv(linearPortionBase * elapsed + vesting - 1, vesting)

\* mutant: the linear part vests at twice the rate
linearVested_Double(linearPortionBase, elapsed, vesting) ==
    BigIntDiv(2 * linearPortionBase * elapsed, vesting)

\* (linearPortionBase * elapsed) / vesting
linearVested(linearPortionBase, elapsed, vesting) ==
    BigIntDiv(linearPortionBase * elapsed, vesting)

computeVestedAmount(s, total, group, timestamp) ==
    LET start == s.tgeTimestampNs
        cliff == group.cliffDurationNs
        vesting == group.vestingDurationNs
        initialClaimStart == s.initialClaimAvailableTimestampNs
        initialClaimBps == s.initialClaimBasisPoints
        postCliffBps == group.initialUnlockBasisPoints
        initialPortionRaw == basisPointsOf(total, initialClaimBps)
        initialPortion == IF initialPortionRaw > total THEN total ELSE initialPortionRaw
        remainingAfterInitial == total - initialPortion
        postCliffPortionRaw == basisPointsOf(total, postCliffBps)
        postCliffPortion ==
            IF postCliffPortionRaw > remainingAfterInitial
            THEN remainingAfterInitial ELSE postCliffPortionRaw
        linearPortionBase == total - initialPortion - postCliffPortion
        vested0 ==
            IF initialClaimAvailable(timestamp, initialClaimStart, start + cliff)
            THEN initialPortion ELSE 0
        elapsed == timestamp - (start + cliff)
        vested2 == vested0 + postCliffPortion + linearVested(linearPortionBase, elapsed, vesting)
    IN  IF beforeCliff(timestamp, start + cliff)
        THEN (IF vested0 > total THEN total ELSE vested0)
        ELSE IF vesting = 0 THEN total
        ELSE IF fullyVested(elapsed, vesting) THEN total
        ELSE IF vested2 > total THEN total ELSE vested2

\* mutant: an investor whose group is not in the registry may claim the whole rest
computeClaimable_OrphanGetsAll(s, accountId, timestamp) ==
    IF ~Has(s.investors, accountId) THEN 0
    ELSE LET record == s.investors[accountId] IN
         IF ~Has(s.groups, record.groupId) THEN record.totalAllocation - record.claimed
         ELSE LET vestable == computeVestedAmount(s, record.totalAllocation,
                                                   s.groups[record.groupId], timestamp)
              IN  IF vestable <= record.claimed THEN 0 ELSE vestable - record.claimed

\* mutant: the unclaimed allocation is claimable whatever has vested
computeClaimable_Unvested(s, accountId, timestamp) ==
    IF ~Has(s.investors, accountId) THEN 0
    ELSE s.investors[accountId].totalAllocation - s.investors[accountId].claimed

computeClaimable(s, accountId, timestamp) ==
    IF ~Has(s.investors, accountId) THEN 0
    ELSE LET record == s.investors[accountId] IN
         IF ~Has(s.groups, record.groupId) THEN 0
         ELSE LET group == s.groups[record.groupId]
                  total == record.totalAllocation
                  claimed == record.claimed
                  vestable == computeVestedAmount(s, total, group, timestamp)
              IN  IF total = claimed THEN 0
                  ELSE IF vestable <= claimed THEN 0
                  ELSE vestable - claimed

\* view; account_id is a non-empty string
get_claimable(s, account_id, timestamp) ==
    IF account_id = "" THEN Throw("account_id is required", s)
    ELSE Return(s, Some(computeClaimable(s, account_id, timestamp)))

\* mutant: a group without initial_unlock_basis_points unlocks everything at the cliff
initialUnlockRaw_Everything(group) ==
    OrElse(group.initial_unlock_basis_points, BASIS_POINTS_DENOMINATOR)

\* group.initial_unlock_basis_points ?? '0'
initialUnlockRaw(group) == OrElse(group.initial_unlock_basis_points, 0)

RECURSIVE setGroupsLoop(_, _, _, _)
setGroupsLoop(s, groups, i, seen) ==
    IF i > Len(groups) THEN Return(s, None)
    ELSE LET group == groups[i]
             cliff == group.cliff_duration_ns
             vesting == group.vesting_duration_ns
             initialUnlockBps == initialUnlockRaw(group)
         IN  IF group.id = "" THEN Throw("group id is required", s)
             ELSE IF group.id \in seen THEN Throw("Duplicate group id", s)
             ELSE IF cliff < 0 \/ vesting < 0 THEN Throw("Durations must be non-negative", s)
             ELSE IF initialUnlockBps < 0
                  THEN Throw("initial_unlock_basis_points must be non-negative", s)
             ELSE IF initialUnlockBps > BASIS_POINTS_DENOMINATOR
                  THEN Throw("initial_unlock_basis_points cannot exceed 100%", s)
             ELSE setGroupsLoop(
                    [s EXCEPT !.groups = Put(s.groups, group.id,
                        [ cliffDurationNs |-> cliff,
                          vestingDurationNs |-> vesting,
                          initialUnlockBasisPoints |-> initialUnlockBps ])],
                    groups, i + 1, seen \cup {group.id})

\* mutant: an empty list is accepted and empties the registry
setGroupsInternal_AllowsEmpty(s, groups) ==
    setGroupsLoop([s EXCEPT !.groups = EmptyMap], groups, 1, {})

\* mutant: the registry is not cleared before the list is stored
setGroupsInternal_NoClear(s, groups) ==
    IF Len(groups) = 0 THEN Throw("groups must be a non-empty array", s)
    ELSE setGroupsLoop(s, groups, 1, {})

setGroupsInternal(s, groups) ==
    IF Len(groups) = 0 THEN Throw("groups must be a non-empty array", s)
    ELSE setGroupsLoop([s EXCEPT !.groups = EmptyMap], groups, 1, {})

\* mutant: basis points > 0 are accepted without an availability timestamp
setInitialClaimConfig_NoTimestampRule(s, initial_claim_basis_points, initial_claim_available_timestamp_ns) ==
    LET basis == OrElse(initial_claim_basis_points, s.initialClaimBasisPoints)
        timestamp == OrElse(initial_claim_available_timestamp_ns,
                            s.initialClaimAvailableTimestampNs)
    IN  IF basis < 0 \/ basis > BASIS_POINTS_DENOMINATOR
        THEN Throw("initial_claim_basis_points must be between 0 and 10000", s)
        ELSE IF timestamp < 0
        THEN Throw("initial_claim_available_timestamp_ns must be non-negative", s)
        ELSE Return([s EXCEPT !.initialClaimBasisPoints = basis,
                              !.initialClaimAvailableTimestampNs = timestamp], None)

setInitialClaimConfig(s, initial_claim_basis_points, initial_claim_available_timestamp_ns) ==
    LET basis == OrElse(initial_claim_basis_points, s.initialClaimBasisPoints)
        s1 == [s EXCEPT !.initialClaimBasisPoints = basis]
        timestamp == OrElse(initial_claim_available_timestamp_ns,
                            s.initialClaimAvailableTimestampNs)
    IN  IF basis < 0 \/ basis > BASIS_POINTS_DENOMINATOR
        THEN Throw("initial_claim_basis_points must be between 0 and 10000", s)
        ELSE IF timestamp < 0
        THEN Throw("initial_claim_available_timestamp_ns must be non-negative", s1)
        ELSE IF basis > 0 /\ timestamp = 0
        THEN Throw("initial_claim_available_timestamp_ns must be provided when basis > 0", s1)
        ELSE Return([s1 EXCEPT !.initialClaimAvailableTimestampNs = timestamp], None)

\* mutant: init does not look whether the contract has an owner already
alreadyInitialized_Never(s) == FALSE

\* @initialize: the stored state exists; this.owner !== ''
alreadyInitialized(s) == s.initialized \/ s.owner # ""

init(s, caller, owner, token_account_id, tge_timestamp_ns, groups, initial_claim_basis_points, initial_claim_available_timestamp_ns) ==
    IF alreadyInitialized(s) THEN Throw("Contract already initialized", s)
    ELSE IF ~IsSome(token_account_id) THEN Throw("token_account_id is required", s)
    ELSE IF ~IsSome(tge_timestamp_ns) THEN Throw("tge_timestamp_ns is required", s)
    ELSE LET s1 == [s EXCEPT !.initialized = TRUE,
                             !.owner = OrElse(owner, caller),
                             !.tokenAccountId = Get(token_account_id),
                             !.tgeTimestampNs = Get(tge_timestamp_ns)]
             r1 == setInitialClaimConfig(s1, initial_claim_basis_points,
                                         initial_claim_available_timestamp_ns)
         IN  IF r1.err # OK THEN r1 ELSE setGroupsInternal(r1.st, groups)

configure_groups(s, caller, groups) ==
    IF ~assertOwner(s, caller) THEN Throw("Only owner can call this function", s)
    ELSE setGroupsInternal(s, groups)

configure_initial_claim(s, caller, initial_claim_basis_points, initial_claim_available_timestamp_ns) ==
    IF ~assertOwner(s, caller) THEN Throw("Only owner can call this function", s)
    ELSE IF ~IsSome(initial_claim_basis_points)
            /\ ~IsSome(initial_claim_available_timestamp_ns)
    THEN Throw("At least one initial claim parameter must be provided", s)
    ELSE setInitialClaimConfig(s, initial_claim_basis_points,
                               initial_claim_available_timestamp_ns)

\* mutant: an allocation equal to what was claimed is refused too
belowClaimed_OrEqual(amount, alreadyClaimed) == amount <= alreadyClaimed

\* mutant: the allocation may be lowered below what was claimed
belowClaimed_Never(amount, alreadyClaimed) == FALSE

\* amount < alreadyClaimed
belowClaimed(amount, alreadyClaimed) == amount < alreadyClaimed

RECURSIVE upsertLoop(_, _, _, _)
upsertLoop(s, investors, i, seenAccounts) ==
    IF i > Len(investors) THEN Return(s, None)
    ELSE LET entry == investors[i] IN
         IF entry.account_id = "" \/ entry.group_id = "" \/ ~IsSome(entry.amount)
         THEN Throw("Each investor must include account_id, group_id, and amount", s)
         ELSE IF entry.account_id \in seenAccounts THEN Throw("Duplicate investor entry", s)
         ELSE IF ~Has(s.groups, entry.group_id) THEN Throw("Unknown group_id", s)
         ELSE IF Get(entry.amount) <= 0 THEN Throw("Investor amount must be positive", s)
         ELSE LET amount == Get(entry.amount)
                  exists == Has(s.investors, entry.account_id)
                  alreadyClaimed == IF exists THEN s.investors[entry.account_id].claimed ELSE 0
              IN  IF exists /\ belowClaimed(amount, alreadyClaimed)
                  THEN Throw("New allocation cannot be less than claimed amount", s)
                  ELSE upsertLoop(
                         [s EXCEPT !.investors = Put(s.investors, entry.account_id,
                             [ groupId |-> entry.group_id,
                               totalAllocation |-> amount,
                               claimed |-> alreadyClaimed ])],
                         investors, i + 1, seenAccounts \cup {entry.account_id})

upsert_investors(s, caller, investors) ==
    IF ~assertOwner(s, caller) THEN Throw("Only owner can call this function", s)
    ELSE IF Len(investors) = 0 THEN Throw("investors array required", s)
    ELSE upsertLoop(s, investors, 1, {})

\* mutant: anybody may claim on behalf of anybody
mayClaimFor_Anyone(s, caller, claimant) == TRUE

\* isSelfClaim || predecessor === owner
mayClaimFor(s, caller, claimant) == claimant = caller \/ caller = s.owner

\* mutant: the amount is not compared with the pool balance
poolCovers_Always(s, amount) == TRUE

\* !(claimable > poolBalance)
poolCovers(s, amount) == ~(amount > s.poolBalance)

\* mutant: the claim is not deducted from the pool balance
claimEffect_NoPoolDebit(s, claimant, claimable) ==
    LET record == s.investors[claimant] IN
    [s EXCEPT !.investors = Put(s.investors, claimant,
                  [record EXCEPT !.claimed = record.claimed + claimable]),
              !.totalClaimed = s.totalClaimed + claimable]

\* mutant: the claim is not added to totalClaimed
claimEffect_NoTotal(s, claimant, claimable) ==
    LET record == s.investors[claimant] IN
    [s EXCEPT !.investors = Put(s.investors, claimant,
                  [record EXCEPT !.claimed = record.claimed + claimable]),
              !.poolBalance = s.poolBalance - claimable]

\* mutant: the claim is not added to the investor's claimed
claimEffect_NoRecord(s, claimant, claimable) ==
    [s EXCEPT !.totalClaimed = s.totalClaimed + claimable,
              !.poolBalance = s.poolBalance - claimable]

\* the optimistic mutation of claim
claimEffect(s, claimant, claimable) ==
    LET record == s.investors[claimant] IN
    [s EXCEPT !.investors = Put(s.investors, claimant,
                  [record EXCEPT !.claimed = record.claimed + claimable]),
              !.totalClaimed = s.totalClaimed + claimable,
              !.poolBalance = s.poolBalance - claimable]

\* mutant: the withdrawal is not deducted from the pool balance
withdrawEffect_NoPoolDebit(s, withdrawal) ==
    [s EXCEPT !.totalWithdrawn = s.totalWithdrawn + withdrawal]

\* mutant: the withdrawal is not added to totalWithdrawn
withdrawEffect_NoTotal(s, withdrawal) ==
    [s EXCEPT !.poolBalance = s.poolBalance - withdrawal]

\* the optimistic mutation of withdraw_unallocated
withdrawEffect(s, withdrawal) ==
    [s EXCEPT !.poolBalance = s.poolBalance - withdrawal,
              !.totalWithdrawn = s.totalWithdrawn + withdrawal]

\* out: the promise chain ft_transfer(receiver_id, amount).then(on_claim_complete)
claim(s, caller, deposit, account_id, timestamp) ==
    LET claimant == OrElse(account_id, caller)
        claimable == computeClaimable(s, claimant, timestamp)
    IN  IF ~assertOneYocto(deposit)
        THEN Throw("Requires attached deposit of exactly 1 yoctoNEAR", s)
        ELSE IF ~mayClaimFor(s, caller, claimant)
        THEN Throw("Only owner can claim on behalf of investors", s)
        ELSE IF ~Has(s.investors, claimant)
        THEN Throw("No allocation found for this account", s)
        ELSE IF claimable <= 0 THEN Throw("Nothing to claim at this time", s)
        ELSE IF ~poolCovers(s, claimable)
        THEN Throw("Insufficient available pool balance; try again later", s)
        ELSE Return(
               claimEffect(s, claimant, claimable),
               Some([kind |-> "claim", account |-> claimant, amount |-> claimable,
                     result |-> "pending"]))

\* out: the promise chain ft_transfer(target, amount).then(on_withdraw_complete)
withdraw_unallocated(s, caller, deposit, amount, recipient) ==
    LET withdrawal == Get(amount)
        target == OrElse(recipient, s.owner)
    IN  IF ~assertOwner(s, caller) THEN Throw("Only owner can call this function", s)
        ELSE IF ~assertOneYocto(deposit)
        THEN Throw("Requires attached deposit of exactly 1 yoctoNEAR", s)
        ELSE IF ~IsSome(amount) THEN Throw("Amount is required", s)
        ELSE IF withdrawal <= 0 THEN Throw("Withdrawal amount must be positive", s)
        ELSE IF ~poolCovers(s, withdrawal)
        THEN Throw("Amount exceeds available pool balance", s)
        ELSE Return(
               withdrawEffect(s, withdrawal),
               Some([kind |-> "withdraw", account |-> target, amount |-> withdrawal,
                     result |-> "pending"]))

\* mutant: the deposit is added to the pool balance but not to totalDeposited
ft_on_transfer_NoTotal(s, caller, amount) ==
    IF ~assertTokenCaller(s, caller)
    THEN Throw("Only the configured token contract can deposit funds", s)
    ELSE IF ~IsSome(amount) THEN Throw("Amount is required", s)
    ELSE IF Get(amount) <= 0 THEN Throw("Deposit amount must be positive", s)
    ELSE Return([s EXCEPT !.poolBalance = s.poolBalance + Get(amount)], Some(0))

\* mutant: the deposit is added to the pool balance twice
ft_on_transfer_CreditsTwice(s, caller, amount) ==
    IF ~assertTokenCaller(s, caller)
    THEN Throw("Only the configured token contract can deposit funds", s)
    ELSE IF ~IsSome(amount) THEN Throw("Amount is required", s)
    ELSE IF Get(amount) <= 0 THEN Throw("Deposit amount must be positive", s)
    ELSE Return([s EXCEPT !.poolBalance = s.poolBalance + 2 * Get(amount),
                          !.totalDeposited = s.totalDeposited + Get(amount)],
                Some(0))

ft_on_transfer(s, caller, amount) ==
    IF ~assertTokenCaller(s, caller)
    THEN Throw("Only the configured token contract can deposit funds", s)
    ELSE IF ~IsSome(amount) THEN Throw("Amount is required", s)
    ELSE IF Get(amount) <= 0 THEN Throw("Deposit amount must be positive", s)
    ELSE Return([s EXCEPT !.poolBalance = s.poolBalance + Get(amount),
                          !.totalDeposited = s.totalDeposited + Get(amount)],
                Some(0))

\* mutant: the claim is taken back whatever the transfer's outcome, and stored
on_claim_complete_AlwaysReverts(s, caller, account_id, amount, promiseOk) ==
    IF ~assertSelf(caller) THEN Throw("Only the contract may call this function", s)
    ELSE IF ~Has(s.investors, account_id)
    THEN Throw("Investor record missing during claim revert", s)
    ELSE LET record == s.investors[account_id] IN
         Return([s EXCEPT !.investors = Put(s.investors, account_id,
                              [record EXCEPT !.claimed = record.claimed - amount]),
                          !.totalClaimed = s.totalClaimed - amount,
                          !.poolBalance = s.poolBalance + amount],
                None)

\* promiseOk: near.promiseResult(0) returns (the transfer succeeded) instead of throwing
on_claim_complete(s, caller, account_id, amount, promiseOk) ==
    IF ~assertSelf(caller) THEN Throw("Only the contract may call this function", s)
    ELSE IF promiseOk THEN Return(s, None)
    ELSE IF ~Has(s.investors, account_id)
    THEN Throw("Investor record missing during claim revert", s)
    ELSE LET record == s.investors[account_id] IN
         Throw("Token transfer failed",
               [s EXCEPT !.investors = Put(s.investors, account_id,
                             [record EXCEPT !.claimed = record.claimed - amount]),
                         !.totalClaimed = s.totalClaimed - amount,
                         !.poolBalance = s.poolBalance + amount])

on_withdraw_complete(s, caller, recipient, amount, promiseOk) ==
    IF ~assertSelf(caller) THEN Throw("Only the contract may call this function", s)
    ELSE IF promiseOk THEN Return(s, None)
    ELSE Throw("Token transfer failed",
               [s EXCEPT !.poolBalance = s.poolBalance + amount,
                         !.totalWithdrawn = s.totalWithdrawn - amount])

\* @NearBindgen({ requireInit: true }): every method but init needs the stored state
requireInit(s, r) ==
    IF s.initialized THEN r ELSE Throw("Contract must be initialized", s)


\* ----------------------------------------------------------- MockFungibleToken
NewToken ==
    [ ownerId |-> Owner,
      totalSupply |-> MaxSupply,
      balances |-> [a \in {Owner} |-> MaxSupply] ]

getBalance(t, accountId) == IF Has(t.balances, accountId) THEN t.balances[accountId] ELSE 0
setBalance(t, accountId, amount) == [t EXCEPT !.balances = Put(t.balances, accountId, amount)]

internalTransfer(t, sender, receiver, amount) ==
    IF sender = receiver THEN Throw("Transfer to self is not allowed", t)
    ELSE IF getBalance(t, sender) < amount THEN Throw("Insufficient balance", t)
    ELSE LET t1 == setBalance(t, sender, getBalance(t, sender) - amount)
         IN  Return(setBalance(t1, receiver, getBalance(t1, receiver) + amount), None)

ft_transfer(t, caller, deposit, receiver_id, amount) ==
    IF ~assertOneYocto(deposit) THEN Throw("Requires attached deposit of exactly 1 yoctoNEAR", t)
    ELSE IF amount <= 0 THEN Throw("Transfer amount must be positive", t)
    ELSE internalTransfer(t, caller, receiver_id, amount)

\* out: the promise chain ft_on_transfer(sender, amount).then(ft_resolve_transfer)
ft_transfer_call(t, caller, deposit, receiver_id, amount) ==
    IF ~assertOneYocto(deposit) THEN Throw("Requires attached deposit of exactly 1 yoctoNEAR", t)
    ELSE IF amount <= 0 THEN Throw("Transfer amount must be positive", t)
    ELSE LET r == internalTransfer(t, caller, receiver_id, amount) IN
         IF r.err # OK THEN r
         ELSE Return(r.st, Some([kind |-> "deposit", account |-> caller, amount |-> amount,
                                 result |-> "pending"]))

\* promise: what ft_on_transfer returned, None when it failed
ft_resolve_transfer(t, caller, sender_id, receiver_id, amount, promise) ==
    LET transferred == amount
        parsed == IF IsSome(promise) THEN Get(promise) ELSE transferred
        unused == IF parsed > transferred THEN transferred ELSE parsed
        used == transferred - unused
    IN  IF ~assertSelf(caller) THEN Throw("Only the contract may call this method", t)
        ELSE IF unused > 0
        THEN LET r == internalTransfer(t, receiver_id, sender_id, unused) IN
             IF r.err # OK THEN r ELSE Return(r.st, Some(used))
        ELSE Return(t, Some(used))


\* ---------------------------------------------------------------------- inputs
TGE == 0

Group(id, cliff, vesting, bps) ==
    [ id |-> id, cliff_duration_ns |-> cliff, vesting_duration_ns |-> vesting,
      initial_unlock_basis_points |-> bps ]
G1 == Group("g1", 0, 2, None)
G2 == Group("g2", 1, 1, Some(5000))
G2b == Group("g2", 2, 0, Some(0))

ValidGroupLists == { <<G1, G2>>, <<G2b>> }
InvalidGroupLists ==
    { <<>>,
      <<G1, G1>>,
      <<G2, Group("", 1, 2, None)>>,
      <<G2, Group("g1", -1, 2, None)>>,
      <<G2, Group("g1", 1, -1, None)>>,
      <<G2, Group("g1", 1, 2, Some(-1))>>,
      <<G2, Group("g1", 1, 2, Some(10001))>> }
GroupLists == ValidGroupLists \cup InvalidGroupLists

\* <<initial_claim_basis_points, initial_claim_available_timestamp_ns>>
OverlayInputs ==
    { <<Some(5000), Some(1)>>, <<Some(0), Some(0)>>,
      <<None, None>>, <<Some(10001), None>>, <<Some(5000), Some(0)>>, <<None, Some(-1)>> }

InitArgs(owner, tok, tge, groups, overlay) ==
    [ owner |-> owner, token_account_id |-> tok, tge_timestamp_ns |-> tge,
      groups |-> groups, overlay |-> overlay ]
InitInputs ==
    { InitArgs(None, Some(Token), Some(TGE), <<G1, G2>>, <<None, None>>),
      InitArgs(Some(Owner), Some(Token), Some(TGE), <<G1, G2>>, <<Some(5000), Some(1)>>),
      InitArgs(None, None, Some(TGE), <<G1, G2>>, <<None, None>>),
      InitArgs(None, Some(Token), None, <<G1, G2>>, <<None, None>>),
      InitArgs(None, Some(Token), Some(TGE), <<G1, G1>>, <<None, None>>),
      InitArgs(None, Some(Token), Some(TGE), <<G1, G2>>, <<Some(5000), None>>) }

Entry(a, g, amt) == [account_id |-> a, group_id |-> g, amount |-> amt]
A1 == Entry(Alice, "g1", Some(2))
A2 == Entry(Alice, "g1", Some(4))
B1 == Entry(Bob, "g2", Some(2))
ValidBatches == { <<A1>>, <<A2>>, <<B1>>, <<A2, B1>> }
InvalidBatches ==
    { <<>>,
      <<B1, B1>>,
      <<B1, Entry(Alice, "g3", Some(4))>>,
      <<B1, Entry(Alice, "g1", Some(0))>>,
      <<B1, Entry(Alice, "g1", None)>>,
      <<B1, Entry("", "g1", Some(2))>> }
\* lowers alice's allocation to 2 after an entry for bob
LoweringBatches == { <<B1, A1>> }
\* moves alice to group g2, with her allocation kept or raised
RegroupBatches == { <<Entry(Alice, "g2", Some(2))>>, <<Entry(Alice, "g2", Some(4))>> }
Batches == ValidBatches \cup InvalidBatches \cup LoweringBatches

\* <<caller, attached deposit, account_id>>
ClaimInputs ==
    { <<c, ONE_YOCTO, a>> : c \in Callers, a \in {None, Some(Alice), Some(Bob)} }
    \cup { <<Alice, NO_DEPOSIT, None>>, <<Alice, 2, None>> }

\* <<caller, attached deposit, amount, recipient>>
WithdrawInputs ==
    { <<Owner, ONE_YOCTO, a, r>> : a \in {None, Some(0), Some(2)}, r \in {None, Some(Self)} }
    \cup { <<Alice, ONE_YOCTO, Some(2), None>>,
           <<Owner, NO_DEPOSIT, Some(2), None>>, <<Owner, 2, Some(2), None>> }
\* <<caller, amount>>: direct calls of the funding hook by accounts that are not the
\* token contract, and calls by the token contract that carry no positive amount
FtOnTransferInputs ==
    { <<c, a>> : c \in {Owner, Alice, Self}, a \in {None, Some(0), Some(2)} }
    \cup { <<Token, None>>, <<Token, Some(0)>>, <<Token, Some(-1)>> }
FundingAmounts == {4}
\* the sizes of the deposits where the pool is funded in several steps
TopUpAmounts == {1, 2}
Funders == {Owner}
\* the owner and one account that is not the owner
OwnerOrNot == {Owner, Alice}

\* --------------------------------------------------- inputs of the vesting schedule
\* tge_timestamp_ns of the deployments whose schedule is followed over time
VestingTGE == 1
\* an initial_claim_available_timestamp_ns no block timestamp reaches
FarFuture == 20
VestingCliffs == {0, 2}
VestingDurations == {0, 1, 3, 4}
\* one group, "g1": without and with a cliff, without a vesting period and with
\* periods of 1, 3 and 4 instants, without and with an instant unlock
VestingGroupLists ==
    { <<Group("g1", 0, 0, None)>>, <<Group("g1", 2, 0, Some(10000))>>,
      <<Group("g1", 0, 1, None)>>, <<Group("g1", 0, 3, None)>>,
      <<Group("g1", 0, 4, Some(0))>>, <<Group("g1", 2, 4, None)>>,
      <<Group("g1", 2, 4, Some(2500))>>, <<Group("g1", 2, 3, Some(10000))>>,
      <<Group("g1", 2, 1, Some(2500))>>, <<Group("g1", 0, 3, Some(2500))>> }

\* <<initial_claim_basis_points, initial_claim_available_timestamp_ns>>
VestingOverlayInputs ==
    { <<Some(0), Some(0)>>, <<Some(5000), Some(2)>>, <<Some(5000), Some(FarFuture)>>,
      <<None, Some(2)>>, <<None, Some(FarFuture)>>, <<Some(0), None>>, <<Some(5000), None>>,
      <<None, Some(0)>>,
      <<None, None>>, <<Some(-1), None>>, <<Some(10001), None>>, <<None, Some(-1)>> }

VestingInitInputs ==
    { InitArgs(None, Some(Token), Some(VestingTGE), groups, overlay) :
        groups \in VestingGroupLists,
        overlay \in { <<None, None>>, <<Some(0), Some(2)>>, <<Some(5000), Some(2)>>,
                      <<Some(5000), Some(FarFuture)>> } }

\* alice's allocation, odd and even
VestingBatches == { <<Entry(Alice, "g1", Some(3))>>, <<Entry(Alice, "g1", Some(8))>> }

\* <<caller, attached deposit, account_id>>
VestingClaimInputs == { <<Alice, ONE_YOCTO, None>>, <<Owner, ONE_YOCTO, Some(Alice)>> }

\* ----------------------------------------------------------------------- state
VARIABLES
    contract,   \* the InvestorVesting instance
    token,      \* the MockFungibleToken instance
    receipts,   \* the promise chains in flight, a bag
    now,        \* near.blockTimestamp()
    last,       \* the outcome of the latest method call on InvestorVesting:
                \* NoError, or the method and the message of the Error it threw
    paid,       \* history: amounts delivered by succeeded transfers of the contract
    snap        \* history: the contract as it was before the latest accepted
                \* claim or withdrawal, while nothing else has been executed since

vars == <<contract, token, receipts, now, last, paid, snap>>

Init ==
    /\ contract = NewContract
    /\ token = NewToken
    /\ receipts = EmptyBag
    /\ now = 0
    /\ last = NoError
    /\ paid = [claim |-> EmptyMap, withdraw |-> 0]
    /\ snap = None

Add(bag, c) == bag (+) SetToBag({c})
Remove(bag, c) == bag (-) SetToBag({c})
Chains == BagToSet(receipts)
Lookup(m, k) == IF Has(m, k) THEN m[k] ELSE 0

RECURSIVE SumOver(_, _)
SumOver(bag, cs) ==
    IF cs = {} THEN 0
    ELSE LET c == CHOOSE x \in cs : TRUE
         IN  bag[c] * c.amount + SumOver(bag, cs \ {c})
\* the amounts of the chains in flight among cs
InFlight(cs) == SumOver(receipts, cs \cap Chains)
Deposits == {c \in Chains : c.kind = "deposit"}

\* methods run to completion one at a time: nothing runs before a thrown Error
\* has been returned to its caller
Idle == last.err = OK

\* a method of the contract that starts no promise chain
Execute(op, r) ==
    /\ Idle
    /\ contract' = Commit(contract, r)
    /\ last' = Outcome(op, r)
    /\ snap' = IF r.err = OK THEN None ELSE snap
    /\ UNCHANGED <<token, receipts, now, paid>>

\* claim and withdraw_unallocated: the returned promise chain is scheduled
ExecuteWithPromise(op, r) ==
    /\ Idle
    /\ r.err = OK => BagCardinality(receipts) < MaxReceipts
    /\ contract' = Commit(contract, r)
    /\ last' = Outcome(op, r)
    /\ receipts' = IF r.err = OK THEN Add(receipts, Get(r.out)) ELSE receipts
    /\ snap' = IF r.err = OK
               THEN Some([chain |-> Get(r.out), open |-> TRUE, pre |-> contract])
               ELSE snap
    /\ UNCHANGED <<token, now, paid>>

Tick ==
    /\ Idle
    /\ now < MaxTime
    /\ now' = now + 1
    /\ UNCHANGED <<contract, token, receipts, last, paid, snap>>

\* who deploys the contract is its owner: by name, or as the caller of init
CallInit ==
    \E caller \in OwnerOrNot, a \in InitInputs :
        /\ caller = Owner \/ IsSome(a.owner)
        /\ Execute("init", init(contract, caller, a.owner, a.token_account_id, a.tge_timestamp_ns,
                             a.groups, a.overlay[1], a.overlay[2]))

CallConfigureGroups ==
    \E caller \in OwnerOrNot, groups \in GroupLists :
        Execute("configure_groups",
                requireInit(contract, configure_groups(contract, caller, groups)))

CallConfigureInitialClaim ==
    \E caller \in OwnerOrNot, overlay \in OverlayInputs :
        Execute("configure_initial_claim",
                requireInit(contract,
                            configure_initial_claim(contract, caller, overlay[1], overlay[2])))

CallUpsertInvestors ==
    \E caller \in OwnerOrNot, investors \in Batches :
        Execute("upsert_investors",
                requireInit(contract, upsert_investors(contract, caller, investors)))

CallClaim ==
    \E in \in ClaimInputs :
        ExecuteWithPromise("claim",
            requireInit(contract, claim(contract, in[1], in[2], in[3], now)))

CallWithdrawUnallocated ==
    \E in \in WithdrawInputs :
        ExecuteWithPromise("withdraw_unallocated",
            requireInit(contract,
                        withdraw_unallocated(contract, in[1], in[2], in[3], in[4])))

\* an investor claims, for herself or for another investor, with or without the
\* deposit of one yoctoNEAR
CallClaimByInvestor ==
    \E in \in { <<Alice, ONE_YOCTO, None>>, <<Bob, ONE_YOCTO, Some(Alice)>>,
                <<Alice, NO_DEPOSIT, None>> } :
        ExecuteWithPromise("claim",
            requireInit(contract, claim(contract, in[1], in[2], in[3], now)))

\* the owner asks for 2 tokens of the pool, whatever the surplus is
CallWithdrawTwo ==
    \E caller \in {Owner} :
        ExecuteWithPromise("withdraw_unallocated",
            requireInit(contract,
                        withdraw_unallocated(contract, caller, ONE_YOCTO, Some(2), None)))

\* an investor asks for 2 tokens of the pool
CallWithdrawByInvestor ==
    \E caller \in {Alice} :
        ExecuteWithPromise("withdraw_unallocated",
            requireInit(contract,
                        withdraw_unallocated(contract, caller, ONE_YOCTO, Some(2), None)))

\* the owner calls init whether or not the contract is initialized
CallInitAgain ==
    \E a \in { InitArgs(None, Some(Token), Some(TGE), <<G1, G2>>, <<None, None>>) } :
        Execute("init", init(contract, Owner, a.owner, a.token_account_id, a.tge_timestamp_ns,
                             a.groups, a.overlay[1], a.overlay[2]))

\* the owner configures a list that names one group twice
CallConfigureGroupsTwice ==
    \E groups \in { <<G1, G1>> } :
        Execute("configure_groups",
                requireInit(contract, configure_groups(contract, Owner, groups)))

\* the owner sends a batch whose second entry may be refused: it lowers alice's
\* allocation, or names a group that does not exist
CallUpsertBobThenAlice ==
    \E investors \in { <<B1, A1>>, <<B1, Entry(Alice, "g3", Some(4))>> } :
        Execute("upsert_investors",
                requireInit(contract, upsert_investors(contract, Owner, investors)))

\* a call of the funding hook outside a transfer of the token contract
CallFtOnTransfer ==
    \E in \in { <<Owner, Some(2)>>, <<Token, Some(0)>> } :
        Execute("ft_on_transfer",
                requireInit(contract, ft_on_transfer(contract, in[1], in[2])))

\* a direct call of a resolution callback by an account that is not the contract
CallOnClaimComplete ==
    \E caller \in {Owner}, account_id \in {Alice}, amount \in {2}, promiseOk \in BOOLEAN :
        Execute("on_claim_complete",
                requireInit(contract,
                            on_claim_complete(contract, caller, account_id, amount, promiseOk)))

\* the token contract executes the ft_transfer receipt of chain i
TokenFtTransfer(rec) ==
    /\ Idle
    /\ rec.kind \in {"claim", "withdraw"}
    /\ rec.result = "pending"
    /\ LET r == ft_transfer(token, Self, ONE_YOCTO, rec.account, rec.amount)
       IN  /\ token' = Commit(token, r)
           /\ receipts' = Add(Remove(receipts, rec),
                              [rec EXCEPT !.result = IF r.err = OK THEN "ok" ELSE "failed"])
           /\ paid' = IF r.err # OK THEN paid
                      ELSE IF rec.kind = "claim"
                      THEN [paid EXCEPT !.claim =
                               Put(paid.claim, rec.account, Lookup(paid.claim, rec.account) + rec.amount)]
                      ELSE [paid EXCEPT !.withdraw = paid.withdraw + rec.amount]
    /\ UNCHANGED <<contract, now, last, snap>>

\* the ft_transfer receipt fails outside the token's code: it runs out of gas, or
\* the configured NEP-141 token wants the receiver registered for storage
TokenFtTransferFails(rec) ==
    /\ Idle
    /\ rec.kind \in {"claim", "withdraw"}
    /\ rec.result = "pending"
    /\ receipts' = Add(Remove(receipts, rec), [rec EXCEPT !.result = "failed"])
    /\ UNCHANGED <<contract, token, now, last, paid, snap>>

\* mutant: the callback's receipt stays in flight after it has run
Resolve_KeepsReceipt(rec, op, r) ==
    /\ contract' = Commit(contract, r)
    /\ last' = Outcome(op, r)
    /\ receipts' = receipts
    /\ snap' = None
    /\ UNCHANGED <<token, now, paid>>

\* the callback of chain i runs once the transfer's outcome is known
Resolve(rec, op, r) ==
    /\ contract' = Commit(contract, r)
    /\ last' = Outcome(op, r)
    /\ receipts' = Remove(receipts, rec)
    /\ snap' = IF IsSome(snap) /\ Get(snap).open
                  /\ [rec EXCEPT !.result = "pending"] = Get(snap).chain
               THEN Some([Get(snap) EXCEPT !.open = FALSE, !.chain = rec])
               ELSE None
    /\ UNCHANGED <<token, now, paid>>

ResolveClaim(rec) ==
    /\ Idle
    /\ rec.kind = "claim"
    /\ rec.result # "pending"
    /\ Resolve(rec, "on_claim_complete",
               requireInit(contract,
                   on_claim_complete(contract, Self, rec.account, rec.amount,
                                     rec.result = "ok")))

ResolveWithdraw(rec) ==
    /\ Idle
    /\ rec.kind = "withdraw"
    /\ rec.result # "pending"
    /\ Resolve(rec, "on_withdraw_complete",
               requireInit(contract,
                   on_withdraw_complete(contract, Self, rec.account, rec.amount,
                                        rec.result = "ok")))

\* a funder sends one of the amounts to the contract through the token's
\* ft_transfer_call, while the deposits stay within cap
FundThrough(amounts, cap) ==
    \E sender \in Funders, amount \in amounts :
        LET r == ft_transfer_call(token, sender, ONE_YOCTO, Self, amount) IN
        /\ Idle
        /\ r.err = OK
        /\ BagCardinality(receipts) < MaxReceipts
        /\ contract.totalDeposited + InFlight(Deposits) + amount <= cap
        /\ token' = r.st
        /\ receipts' = Add(receipts, Get(r.out))
        /\ UNCHANGED <<contract, now, last, paid, snap>>

\* the pool is funded with one deposit
TokenFtTransferCall == FundThrough(FundingAmounts, MaxDeposited)
\* the pool is funded in several steps
TopUp == FundThrough(TopUpAmounts, MaxToppedUp)

\* the contract executes the ft_on_transfer receipt of chain i
DeliverFtOnTransfer(rec) ==
    /\ Idle
    /\ rec.kind = "deposit"
    /\ rec.result = "pending"
    /\ LET r == requireInit(contract, ft_on_transfer(contract, Token, Some(rec.amount)))
       IN  /\ contract' = Commit(contract, r)
           /\ last' = Outcome("ft_on_transfer", r)
           /\ receipts' = Add(Remove(receipts, rec),
                              [rec EXCEPT !.result = IF r.err = OK THEN "ok" ELSE "failed"])
           /\ snap' = IF r.err = OK THEN None ELSE snap
    /\ UNCHANGED <<token, now, paid>>

TokenFtResolveTransfer(rec) ==
    /\ Idle
    /\ rec.kind = "deposit"
    /\ rec.result # "pending"
    /\ LET r == ft_resolve_transfer(token, Token, rec.account, Self, rec.amount,
                                    IF rec.result = "ok" THEN Some(0) ELSE None)
       IN  token' = Commit(token, r)
    /\ receipts' = Remove(receipts, rec)
    /\ UNCHANGED <<contract, now, last, paid, snap>>

\* the caller has received the outcome of its call
ReturnError ==
    /\ last.err # OK
    /\ last' = NoError
    /\ UNCHANGED <<contract, token, receipts, now, paid, snap>>

Accepted(A) == A /\ last'.err = OK

\* the receipts in flight are executed in any order
RunFtTransfer == \E rec \in Chains : TokenFtTransfer(rec)
RunFtTransferFails == \E rec \in Chains : TokenFtTransferFails(rec)
RunOnClaimComplete == \E rec \in Chains : ResolveClaim(rec)
RunOnWithdrawComplete == \E rec \in Chains : ResolveWithdraw(rec)
RunFtOnTransfer == \E rec \in Chains : DeliverFtOnTransfer(rec)
RunFtResolveTransfer == \E rec \in Chains : TokenFtResolveTransfer(rec)

\* every interleaving of the calls the contract accepts with the receipts in flight
Next ==
    \/ Tick
    \/ Accepted(CallInit)
    \/ Accepted(CallConfigureGroups)
    \/ Accepted(CallConfigureInitialClaim)
    \/ Accepted(CallUpsertInvestors)
    \/ Accepted(CallClaim)
    \/ Accepted(CallWithdrawUnallocated)
    \/ TokenFtTransferCall
    \/ RunFtTransfer
    \/ RunFtTransferFails
    \/ RunOnClaimComplete
    \/ RunOnWithdrawComplete
    \/ RunFtOnTransfer
    \/ RunFtResolveTransfer
    \/ ReturnError

Spec == Init /\ [][Next]_vars

\* the owner moves an investor to another group
CallRegroupInvestors ==
    \E investors \in RegroupBatches :
        Execute("upsert_investors",
                requireInit(contract, upsert_investors(contract, Owner, investors)))

\* every interleaving of the accepted calls of init, upsert_investors, also changing
\* groups, and claim with the receipts in flight
NextLedger ==
    \/ Tick
    \/ Accepted(CallInit)
    \/ Accepted(CallUpsertInvestors)
    \/ Accepted(CallRegroupInvestors)
    \/ Accepted(CallClaim)
    \/ TokenFtTransferCall
    \/ RunFtTransfer
    \/ RunFtTransferFails
    \/ RunOnClaimComplete
    \/ RunFtOnTransfer
    \/ RunFtResolveTransfer
    \/ ReturnError

SpecLedger == Init /\ [][NextLedger]_vars

\* the runtime executes every receipt in flight: the token contract reports the outcome
\* of each transfer, each callback runs, and each thrown Error is returned
Fairness ==
    /\ WF_vars(RunFtTransfer \/ RunFtTransferFails)
    /\ WF_vars(RunOnClaimComplete)
    /\ WF_vars(RunOnWithdrawComplete)
    /\ WF_vars(RunFtOnTransfer)
    /\ WF_vars(RunFtResolveTransfer)
    /\ WF_vars(ReturnError)

\* the calls that start, accompany and resolve claims and withdrawals of one deployment
NextFair ==
    \/ Tick
    \/ Accepted(CallInit)
    \/ Accepted(CallUpsertInvestors)
    \/ Accepted(CallClaim)
    \/ Accepted(CallWithdrawUnallocated)
    \/ TokenFtTransferCall
    \/ RunFtTransfer
    \/ RunFtTransferFails
    \/ RunOnClaimComplete
    \/ RunOnWithdrawComplete
    \/ RunFtOnTransfer
    \/ RunFtResolveTransfer
    \/ ReturnError

SpecFair == Init /\ [][NextFair]_vars /\ Fairness

\* the accepted calls of init, configure_groups, upsert_investors, claim and
\* withdraw_unallocated, the claims of investors and the withdrawals of 2 tokens also
\* where they are rejected, and direct calls of the claim callback, interleaved with
\* the receipts in flight
NextPayouts ==
    \/ Tick
    \/ Accepted(CallInit)
    \/ Accepted(CallConfigureGroups)
    \/ Accepted(CallUpsertInvestors)
    \/ Accepted(CallClaim)
    \/ CallClaimByInvestor
    \/ Accepted(CallWithdrawUnallocated)
    \/ CallWithdrawTwo
    \/ CallOnClaimComplete
    \/ TokenFtTransferCall
    \/ RunFtTransfer
    \/ RunFtTransferFails
    \/ RunOnClaimComplete
    \/ RunOnWithdrawComplete
    \/ RunFtOnTransfer
    \/ RunFtResolveTransfer
    \/ ReturnError

SpecPayouts == Init /\ [][NextPayouts]_vars

\* the accepted calls of init, configure_groups, upsert_investors, claim and
\* withdraw_unallocated, and init on the initialized contract, a list naming a group
\* twice, batches with an entry that may be refused and withdrawals by an investor
\* also where they are rejected, interleaved with the receipts in flight
NextConfig ==
    \/ Tick
    \/ Accepted(CallInit)
    \/ CallInitAgain
    \/ Accepted(CallConfigureGroups)
    \/ CallConfigureGroupsTwice
    \/ Accepted(CallUpsertInvestors)
    \/ CallUpsertBobThenAlice
    \/ Accepted(CallClaim)
    \/ Accepted(CallWithdrawUnallocated)
    \/ CallWithdrawByInvestor
    \/ TokenFtTransferCall
    \/ RunFtTransfer
    \/ RunFtTransferFails
    \/ RunOnClaimComplete
    \/ RunOnWithdrawComplete
    \/ RunFtOnTransfer
    \/ RunFtResolveTransfer
    \/ ReturnError

SpecConfig == Init /\ [][NextConfig]_vars

\* the pool funded in several steps while investors claim, and calls of
\* ft_on_transfer outside a transfer of the token contract
NextFunding ==
    \/ Tick
    \/ Accepted(CallInit)
    \/ Accepted(CallUpsertInvestors)
    \/ Accepted(CallClaim)
    \/ CallFtOnTransfer
    \/ TopUp
    \/ RunFtTransfer
    \/ RunFtTransferFails
    \/ RunOnClaimComplete
    \/ RunFtOnTransfer
    \/ RunFtResolveTransfer
    \/ ReturnError

SpecFunding == Init /\ [][NextFunding]_vars

\* the block timestamp advances over the whole schedule
VestingTick ==
    /\ Idle
    /\ now < MaxVestingTime
    /\ now' = now + 1
    /\ UNCHANGED <<contract, token, receipts, last, paid, snap>>

DeployVesting ==
    \E a \in VestingInitInputs :
        Execute("init", init(contract, Owner, a.owner, a.token_account_id, a.tge_timestamp_ns,
                             a.groups, a.overlay[1], a.overlay[2]))

ConfigureVestingGroups ==
    \E groups \in VestingGroupLists :
        Execute("configure_groups",
                requireInit(contract, configure_groups(contract, Owner, groups)))

ConfigureVestingOverlay ==
    \E overlay \in VestingOverlayInputs :
        Execute("configure_initial_claim",
                requireInit(contract,
                            configure_initial_claim(contract, Owner, overlay[1], overlay[2])))

\* the owner sets basis points alone, whether or not a timestamp is set
ConfigureVestingBasisPoints ==
    \E overlay \in { <<Some(5000), None>> } :
        Execute("configure_initial_claim",
                requireInit(contract,
                            configure_initial_claim(contract, Owner, overlay[1], overlay[2])))

UpsertVesting ==
    \E investors \in VestingBatches :
        Execute("upsert_investors",
                requireInit(contract, upsert_investors(contract, Owner, investors)))

ClaimVested ==
    \E in \in VestingClaimInputs :
        ExecuteWithPromise("claim",
            requireInit(contract, claim(contract, in[1], in[2], in[3], now)))

\* one deployment over its whole schedule: the owner configures groups and overlay,
\* allocates, funds the pool; alice, or the owner for her, claims at any time
NextVesting ==
    \/ VestingTick
    \/ Accepted(DeployVesting)
    \/ Accepted(ConfigureVestingGroups)
    \/ Accepted(ConfigureVestingOverlay)
    \/ ConfigureVestingBasisPoints
    \/ Accepted(UpsertVesting)
    \/ ClaimVested
    \/ TokenFtTransferCall
    \/ RunFtTransfer
    \/ RunOnClaimComplete
    \/ RunFtOnTransfer
    \/ RunFtResolveTransfer
    \/ ReturnError

SpecVesting == Init /\ [][NextVesting]_vars

\* ------------------------------------------------------------------ properties
FailedClaim == [op |-> "on_claim_complete", err |-> "Token transfer failed"]
FailedWithdraw == [op |-> "on_withdraw_complete", err |-> "Token transfer failed"]
IsPayout(c) == c.kind \in {"claim", "withdraw"}
IsPendingPayout(c) == IsPayout(c) /\ c.result = "pending"
PendingPayouts == {c \in Chains : IsPendingPayout(c)}

RECURSIVE SumMap(_, _)
SumMap(m, ks) ==
    IF ks = {} THEN 0
    ELSE LET k == CHOOSE x \in ks : TRUE IN m[k] + SumMap(m, ks \ {k})
\* the tokens the token contract has moved out of the contract for claims and withdrawals
PaidTotal == SumMap(paid.claim, DOMAIN paid.claim) + paid.withdraw

\* C1: in every reachable state, also while claims or withdrawals are pending and
\* after the callback of a failed transfer, poolBalance = totalDeposited -
\* totalClaimed - totalWithdrawn.
PoolBalanceReconciles ==
    contract.poolBalance =
        contract.totalDeposited - contract.totalClaimed - contract.totalWithdrawn

\* C1 witness: the callback of a failed claim has just run while a withdrawal is in flight.
PoolBalanceReconcilesWitness ==
    /\ last = FailedClaim
    /\ \E c \in Chains : c.kind = "withdraw"
    /\ contract.totalDeposited > 0

\* C2: every investor record has 0 <= claimed <= totalAllocation in every reachable
\* state, also while claims of that investor are pending.
ClaimedWithinAllocation ==
    \A a \in DOMAIN contract.investors :
        /\ 0 <= contract.investors[a].claimed
        /\ contract.investors[a].claimed <= contract.investors[a].totalAllocation

\* C2 witness: an investor whose allocation was raised after a first claim has claimed
\* all of it, the last claim still being in flight.
ClaimedWithinAllocationWitness ==
    /\ Has(contract.investors, Alice)
    /\ contract.investors[Alice].totalAllocation = 4
    /\ contract.investors[Alice].claimed = 4
    /\ \E c \in Chains : c.kind = "claim" /\ c.account = Alice /\ c.amount = 3
                         /\ c.result = "pending"

\* C3: poolBalance is never negative, and the transfers in flight together with the
\* transfers that succeeded never exceed totalDeposited.
NoDoubleGrant ==
    /\ contract.poolBalance >= 0
    /\ InFlight(PendingPayouts) + PaidTotal <= contract.totalDeposited

\* C3 witness: a claim and a withdrawal are in flight at once and earmark the whole pool.
NoDoubleGrantWitness ==
    /\ \E c \in Chains : c.kind = "claim" /\ c.result = "pending"
    /\ \E c \in Chains : c.kind = "withdraw" /\ c.result = "pending"
    /\ InFlight(PendingPayouts) = contract.totalDeposited
    /\ contract.poolBalance = 0

\* the callback of the latest accepted claim or withdrawal has just run with a failed
\* transfer, and nothing else was executed after the call was accepted
RolledBack(kind) ==
    /\ IsSome(snap)
    /\ ~Get(snap).open
    /\ Get(snap).chain.kind = kind
    /\ Get(snap).chain.result = "failed"

\* C4: when on_claim_complete runs with a failed transfer right after the claim, the
\* investor's claimed, totalClaimed and poolBalance equal their values before the claim.
ClaimRoundTrip ==
    RolledBack("claim") =>
        LET pre == Get(snap).pre
            a == Get(snap).chain.account
        IN  /\ contract.investors[a].claimed = pre.investors[a].claimed
            /\ contract.totalClaimed = pre.totalClaimed
            /\ contract.poolBalance = pre.poolBalance

\* C10: when on_withdraw_complete runs with a failed transfer right after the
\* withdrawal, poolBalance and totalWithdrawn equal their values before the withdrawal,
\* and totalWithdrawn is not negative.
WithdrawRoundTrip ==
    /\ contract.totalWithdrawn >= 0
    /\ RolledBack("withdraw") =>
        /\ contract.poolBalance = Get(snap).pre.poolBalance
        /\ contract.totalWithdrawn = Get(snap).pre.totalWithdrawn

\* the ledger and everything a call can set in motion
ledger == <<contract, token, receipts, paid>>

NotSelf == "Only the contract may call this function"
NotOwnerClaim == "Only owner can claim on behalf of investors"
NothingToClaim == "Nothing to claim at this time"
InsufficientPoolBalance == "Insufficient available pool balance; try again later"
InvalidWithdrawAmount == {"Withdrawal amount must be positive", "Amount exceeds available pool balance"}

\* the contract as the method call with result r leaves it
After(r) == Commit(contract, r)

\* what every step that is a call of op shows: an error of op, or a new promise chain
Attempt(op) ==
    Idle /\ (last'.op = op \/ BagCardinality(receipts') > BagCardinality(receipts))

\* the step is the call withdraw_unallocated(in[3], in[4]) by in[1] with in[2] attached
IsWithdrawCall(in) ==
    ExecuteWithPromise("withdraw_unallocated",
        requireInit(contract, withdraw_unallocated(contract, in[1], in[2], in[3], in[4])))

\* C5: on_claim_complete and on_withdraw_complete called by another account than the
\* contract are rejected and change nothing.
CallbacksAreSelfOnly ==
    Idle =>
        \A caller \in Callers \ {Self}, account_id \in InvestorIds \cup {Owner},
           amount \in 1..MaxDeposited, promiseOk \in BOOLEAN :
            \A r \in { requireInit(contract,
                           on_claim_complete(contract, caller, account_id, amount, promiseOk)),
                       requireInit(contract,
                           on_withdraw_complete(contract, caller, account_id, amount, promiseOk)) } :
                /\ r.err # OK
                /\ contract.initialized => r.err = NotSelf
                /\ After(r) = contract
                /\ r.out = None

\* C5 witness: a forged on_claim_complete was rejected while a claim was in flight.
CallbacksAreSelfOnlyWitness ==
    /\ last = [op |-> "on_claim_complete", err |-> NotSelf]
    /\ \E c \in Chains : c.kind = "claim" /\ c.result = "pending"

\* C6: claim for another account than the caller is rejected and changes nothing
\* unless the caller is the owner; a claim without account_id pays the caller and
\* touches no other investor's record.
ClaimOnBehalfOwnerOnly ==
    Idle => \A in \in ClaimInputs :
        LET r == requireInit(contract, claim(contract, in[1], in[2], in[3], now)) IN
        /\ (IsSome(in[3]) /\ Get(in[3]) # in[1] /\ in[1] # contract.owner) =>
               /\ r.err # OK
               /\ (contract.initialized /\ in[2] = ONE_YOCTO) => r.err = NotOwnerClaim
               /\ After(r) = contract
               /\ r.out = None
        /\ (~IsSome(in[3]) /\ r.err = OK) =>
               /\ \A a \in DOMAIN contract.investors \ {in[1]} :
                      After(r).investors[a] = contract.investors[a]
               /\ IsSome(r.out)
               /\ Get(r.out).account = in[1]

\* C6 witness: an account that is not the owner was refused a claim for another account
\* that had something to claim.
ClaimOnBehalfOwnerOnlyWitness ==
    /\ last = [op |-> "claim", err |-> NotOwnerClaim]
    /\ \E a \in DOMAIN contract.investors : computeClaimable(contract, a, now) > 0
    /\ contract.poolBalance > 0

\* nothing of the investor's allocation is claimable at the timestamp
NothingVested(s, a, timestamp) ==
    /\ Has(s.investors, a)
    /\ \/ ~Has(s.groups, s.investors[a].groupId)
       \/ computeVestedAmount(s, s.investors[a].totalAllocation,
                              s.groups[s.investors[a].groupId], timestamp)
             <= s.investors[a].claimed

\* C7: a claim for an investor whose claimable amount is 0 fails with 'Nothing to
\* claim at this time', changes nothing and requests no transfer.
NothingToClaimRejected ==
    Idle => \A in \in ClaimInputs :
        LET r == requireInit(contract, claim(contract, in[1], in[2], in[3], now))
            claimant == OrElse(in[3], in[1])
        IN  (/\ contract.initialized
             /\ in[2] = ONE_YOCTO
             /\ claimant = in[1] \/ in[1] = contract.owner
             /\ NothingVested(contract, claimant, now)) =>
                /\ r.err = NothingToClaim
                /\ After(r) = contract
                /\ r.out = None

\* C7 witness: a claim was refused with 'Nothing to claim at this time' while the
\* pool held tokens.
NothingToClaimRejectedWitness ==
    /\ last = [op |-> "claim", err |-> NothingToClaim]
    /\ contract.poolBalance > 0

\* C8: a claim whose claimable amount exceeds poolBalance fails with 'Insufficient
\* available pool balance', pays nothing, changes nothing and requests no transfer.
InsufficientPoolRejected ==
    Idle => \A in \in ClaimInputs :
        LET r == requireInit(contract, claim(contract, in[1], in[2], in[3], now))
            claimant == OrElse(in[3], in[1])
        IN  (/\ contract.initialized
             /\ in[2] = ONE_YOCTO
             /\ claimant = in[1] \/ in[1] = contract.owner
             /\ Has(contract.investors, claimant)
             /\ ~NothingVested(contract, claimant, now)
             /\ Has(contract.groups, contract.investors[claimant].groupId)
             /\ computeVestedAmount(contract, contract.investors[claimant].totalAllocation,
                    contract.groups[contract.investors[claimant].groupId], now)
                  - contract.investors[claimant].claimed > contract.poolBalance) =>
                /\ r.err = InsufficientPoolBalance
                /\ After(r) = contract
                /\ r.out = None

\* C8 witness: a claim was refused for lack of pool balance while the pool still held
\* tokens and part of the deposits was earmarked for a transfer in flight.
InsufficientPoolRejectedWitness ==
    /\ last = [op |-> "claim", err |-> InsufficientPoolBalance]
    /\ contract.poolBalance > 0
    /\ \E c \in Chains : IsPendingPayout(c)

\* C9: withdraw_unallocated with amount <= 0 or amount > poolBalance is rejected and
\* leaves the four counters unchanged; an accepted one of amount A takes exactly A
\* from poolBalance and adds exactly A to totalWithdrawn.
WithdrawChecked ==
    Idle => \A in \in WithdrawInputs :
        LET r == requireInit(contract,
                     withdraw_unallocated(contract, in[1], in[2], in[3], in[4]))
        IN  /\ (IsSome(in[3]) /\ (Get(in[3]) <= 0 \/ Get(in[3]) > contract.poolBalance)) =>
                   /\ r.err # OK
                   /\ (contract.initialized /\ in[1] = contract.owner /\ in[2] = ONE_YOCTO)
                          => r.err \in InvalidWithdrawAmount
                   /\ After(r) = contract
                   /\ r.out = None
            /\ r.err = OK =>
                   /\ After(r).poolBalance = contract.poolBalance - Get(in[3])
                   /\ After(r).totalWithdrawn = contract.totalWithdrawn + Get(in[3])
                   /\ After(r).totalDeposited = contract.totalDeposited
                   /\ After(r).totalClaimed = contract.totalClaimed

\* C9 witness: after an accepted withdrawal, a second one exceeding what is left in
\* the pool was refused.
WithdrawCheckedWitness ==
    /\ last = [op |-> "withdraw_unallocated", err |-> "Amount exceeds available pool balance"]
    /\ contract.totalWithdrawn > 0
    /\ contract.poolBalance > 0

\* what the investors may still claim of their allocations
RECURSIVE Outstanding(_, _)
Outstanding(s, ks) ==
    IF ks = {} THEN 0
    ELSE LET k == CHOOSE x \in ks : TRUE
         IN  s.investors[k].totalAllocation - s.investors[k].claimed
             + Outstanding(s, ks \ {k})

\* the pool holds what the investors may still claim
BacksAllocations(s) == s.poolBalance >= Outstanding(s, DOMAIN s.investors)

\* C11: an accepted withdraw_unallocated takes surplus only: a pool that covered the
\* unclaimed allocations of all investors before the withdrawal covers them after it.
WithdrawTakesSurplusOnly ==
    [][Attempt("withdraw_unallocated") => \A in \in WithdrawInputs :
            (IsWithdrawCall(in) /\ last'.err = OK /\ BacksAllocations(contract))
                => BacksAllocations(contract')]_vars

NotToken == "Only the configured token contract can deposit funds"

\* C12: ft_on_transfer called by another account than the configured token account is
\* rejected and leaves poolBalance, totalDeposited and everything else unchanged.
OnlyTokenDeposits ==
    Idle => \A in \in FtOnTransferInputs :
        LET r == requireInit(contract, ft_on_transfer(contract, in[1], in[2])) IN
        in[1] # contract.tokenAccountId =>
            /\ r.err # OK
            /\ contract.initialized => r.err = NotToken
            /\ After(r) = contract
            /\ r.out = None

\* C12 witness: a direct deposit by an account that is not the token contract was
\* refused while the pool held the 3 tokens deposited through the token contract.
OnlyTokenDepositsWitness ==
    /\ last = [op |-> "ft_on_transfer", err |-> NotToken]
    /\ contract.totalDeposited = 3
    /\ contract.poolBalance = 3

\* C13: ft_on_transfer from the token account with amount d > 0 adds exactly d to
\* poolBalance and to totalDeposited, changes no other field and returns 0; without
\* an amount or with an amount <= 0 it is rejected and changes nothing.
DepositAddsExactly ==
    (Idle /\ contract.initialized) =>
        /\ \A rec \in Deposits :
               rec.result = "pending" =>
                   LET r == ft_on_transfer(contract, Token, Some(rec.amount)) IN
                   /\ rec.amount > 0
                   /\ r.err = OK
                   /\ After(r) = [contract EXCEPT
                                     !.poolBalance = contract.poolBalance + rec.amount,
                                     !.totalDeposited = contract.totalDeposited + rec.amount]
                   /\ r.out = Some(0)
        /\ \A in \in FtOnTransferInputs :
               LET r == ft_on_transfer(contract, in[1], in[2]) IN
               (/\ in[1] = contract.tokenAccountId
                /\ ~IsSome(in[2]) \/ Get(in[2]) <= 0) =>
                   /\ r.err \in {"Amount is required", "Deposit amount must be positive"}
                   /\ After(r) = contract
                   /\ r.out = None

\* C13 witness: deposits of 1 and of 2 have been added to a pool that was partly
\* paid out.
DepositAddsExactlyWitness ==
    /\ contract.totalDeposited = 3
    /\ contract.poolBalance < 3
    /\ \E c \in Chains : c.kind = "deposit" /\ c.result = "ok"


\* the result of the call upsert_investors(investors) by caller
Upsert(caller, investors) ==
    requireInit(contract, upsert_investors(contract, caller, investors))

\* what the account had claimed before the call
ClaimedBefore(a) == IF Has(contract.investors, a) THEN contract.investors[a].claimed ELSE 0

\* entry i asks for less than its account has claimed
LowersBelowClaimed(investors, i) ==
    /\ IsSome(investors[i].amount)
    /\ Has(contract.investors, investors[i].account_id)
    /\ Get(investors[i].amount) < contract.investors[investors[i].account_id].claimed

BelowClaimed == "New allocation cannot be less than claimed amount"

\* C14: whenever a method can be called, upsert_investors for an existing account
\* with an amount below its claimed is rejected and changes nothing; with an amount
\* >= claimed it is accepted, sets totalAllocation to the amount and leaves claimed
\* as it was.
UpsertKeepsClaimed ==
    Idle => \A caller \in OwnerOrNot, investors \in Batches :
        LET r == Upsert(caller, investors) IN
        /\ (\E i \in 1..Len(investors) : LowersBelowClaimed(investors, i)) =>
               r.err # OK /\ After(r) = contract
        /\ (/\ contract.initialized
            /\ caller = contract.owner
            /\ investors \in ValidBatches \cup LoweringBatches
            /\ \A i \in 1..Len(investors) :
                   /\ Has(contract.groups, investors[i].group_id)
                   /\ ~LowersBelowClaimed(investors, i)) => r.err = OK
        /\ r.err = OK =>
               \A i \in 1..Len(investors) :
                   LET a == investors[i].account_id IN
                   /\ After(r).investors[a].totalAllocation = Get(investors[i].amount)
                   /\ After(r).investors[a].claimed = ClaimedBefore(a)

\* C14 witness: an allocation of 4 of which 3 had been claimed, one of them by a claim
\* still in flight, was refused to be lowered to 2.
UpsertKeepsClaimedWitness ==
    /\ last = [op |-> "upsert_investors", err |-> BelowClaimed]
    /\ Has(contract.investors, Alice)
    /\ contract.investors[Alice].claimed > 2
    /\ \E c \in Chains : c.kind = "claim" /\ c.account = Alice /\ c.result = "pending"

\* entry i of the batch is one that upsert_investors refuses
BadEntry(investors, i) ==
    LET e == investors[i] IN
    \/ e.account_id = "" \/ e.group_id = "" \/ ~IsSome(e.amount)
    \/ ~Has(contract.groups, e.group_id)
    \/ Get(e.amount) <= 0
    \/ \E j \in 1..(i - 1) : investors[j].account_id = e.account_id
    \/ LowersBelowClaimed(investors, i)

\* C15: upsert_investors is all-or-nothing: whenever a method can be called, a batch
\* with an entry that has an unknown group, an amount <= 0, a missing field, an
\* account seen earlier in the batch or an amount below the account's claimed fails,
\* and no investor record is created or changed, nor anything else.
UpsertAllOrNothing ==
    Idle => \A caller \in OwnerOrNot, investors \in Batches :
        LET r == Upsert(caller, investors) IN
        (\E i \in 1..Len(investors) : BadEntry(investors, i)) =>
            /\ r.err # OK
            /\ After(r).investors = contract.investors
            /\ After(r) = contract

\* C15 witness: a batch whose second entry names an unknown group was refused, and
\* bob, whom its first entry names, has no record.
UpsertAllOrNothingWitness ==
    /\ last = [op |-> "upsert_investors", err |-> "Unknown group_id"]
    /\ Has(contract.investors, Alice)
    /\ ~Has(contract.investors, Bob)

\* the result of the call configure_groups(groups) by caller
ConfigureGroups(caller, groups) ==
    requireInit(contract, configure_groups(contract, caller, groups))

\* a list that setGroupsInternal refuses
InvalidGroups(groups) ==
    \/ Len(groups) = 0
    \/ \E i \in 1..Len(groups) :
          LET g == groups[i]
              bps == OrElse(g.initial_unlock_basis_points, 0)
          IN  \/ g.id = ""
              \/ \E j \in 1..(i - 1) : groups[j].id = g.id
              \/ g.cliff_duration_ns < 0 \/ g.vesting_duration_ns < 0
              \/ bps < 0 \/ bps > BASIS_POINTS_DENOMINATOR

\* C16: whenever a method can be called, configure_groups with an empty list, a
\* duplicate id, a missing id, a negative duration or initial unlock basis points
\* outside [0, 10000] fails and leaves the group registry, and everything else, as
\* it was.
InvalidGroupsChangeNothing ==
    Idle => \A caller \in OwnerOrNot, groups \in GroupLists :
        LET r == ConfigureGroups(caller, groups) IN
        InvalidGroups(groups) =>
            /\ r.err # OK
            /\ After(r).groups = contract.groups
            /\ After(r) = contract

\* C16 witness: a list with a duplicate id was refused while the registry held the
\* single group of an earlier replacement.
InvalidGroupsChangeNothingWitness ==
    /\ last = [op |-> "configure_groups", err |-> "Duplicate group id"]
    /\ DOMAIN contract.groups = {"g2"}

\* the registry entry setGroupsInternal stores for a group of the list
Stored(group) ==
    [ cliffDurationNs |-> group.cliff_duration_ns,
      vestingDurationNs |-> group.vesting_duration_ns,
      initialUnlockBasisPoints |-> OrElse(group.initial_unlock_basis_points, 0) ]

\* C17: whenever a method can be called, an accepted configure_groups leaves a registry
\* that holds exactly the ids of the list, each with the values of the list, and
\* changes nothing else: no investor record is touched.
ConfigureGroupsReplaces ==
    Idle => \A caller \in OwnerOrNot, groups \in GroupLists :
        LET r == ConfigureGroups(caller, groups) IN
        r.err = OK =>
            /\ DOMAIN After(r).groups = { groups[i].id : i \in 1..Len(groups) }
            /\ \A i \in 1..Len(groups) : After(r).groups[groups[i].id] = Stored(groups[i])
            /\ After(r).investors = contract.investors
            /\ After(r) = [contract EXCEPT !.groups = After(r).groups]

\* C17 witness: the registry of g1 and g2 has been replaced by the single group g2
\* with new values, and the record of an investor of g1 is still there.
ConfigureGroupsReplacesWitness ==
    /\ DOMAIN contract.groups = {"g2"}
    /\ contract.groups["g2"] = Stored(G2b)
    /\ \E a \in DOMAIN contract.investors :
          contract.investors[a].groupId = "g1" /\ contract.investors[a].claimed > 0

\* the result of the call init(a) by caller
InitCall(caller, a) ==
    init(contract, caller, a.owner, a.token_account_id, a.tge_timestamp_ns, a.groups,
         a.overlay[1], a.overlay[2])

AlreadyInitialized == "Contract already initialized"

\* C19: init succeeds at most once. Whenever a method can be called: on an initialized
\* contract init fails with 'Contract already initialized' and changes nothing; an
\* init that succeeds makes the supplied owner, or without one the caller, the owner;
\* an init that fails leaves the contract uninitialized.
InitOnce ==
    Idle => \A caller \in OwnerOrNot, a \in InitInputs :
        LET r == InitCall(caller, a) IN
        /\ contract.initialized => r.err = AlreadyInitialized /\ After(r) = contract
        /\ r.err = OK =>
               /\ ~contract.initialized
               /\ After(r).initialized
               /\ After(r).owner = IF IsSome(a.owner) THEN Get(a.owner) ELSE caller
        /\ (~contract.initialized /\ r.err # OK) =>
               ~After(r).initialized /\ After(r) = contract

\* C19 witness: a second init was refused on a contract that holds investors and funds.
InitOnceWitness ==
    /\ last = [op |-> "init", err |-> AlreadyInitialized]
    /\ contract.initialized
    /\ contract.investors # EmptyMap
    /\ contract.poolBalance > 0

Unauthorized == "Only owner can call this function"

\* C20: whenever a method can be called, configure_groups, configure_initial_claim,
\* upsert_investors and withdraw_unallocated called by another account than the owner
\* are rejected, with 'Only owner can call this function' once the contract is
\* initialized, and change nothing.
OwnerOnly ==
    Idle => \A caller \in (Callers \cup {Token, Self}) \ {contract.owner} :
        LET Refused(r) ==
                /\ r.err # OK
                /\ contract.initialized => r.err = Unauthorized
                /\ After(r) = contract
        IN  /\ \A groups \in GroupLists : Refused(ConfigureGroups(caller, groups))
            /\ \A overlay \in OverlayInputs :
                   Refused(requireInit(contract,
                       configure_initial_claim(contract, caller, overlay[1], overlay[2])))
            /\ \A investors \in Batches : Refused(Upsert(caller, investors))
            /\ \A in \in WithdrawInputs :
                   Refused(requireInit(contract,
                       withdraw_unallocated(contract, caller, in[2], in[3], in[4])))

\* C20 witness: a withdrawal asked for by an account that is not the owner was refused
\* while the pool held tokens.
OwnerOnlyWitness ==
    /\ last = [op |-> "withdraw_unallocated", err |-> Unauthorized]
    /\ contract.poolBalance > 0

\* the investor's group is not in the registry
Orphaned(s, a) == Has(s.investors, a) /\ ~Has(s.groups, s.investors[a].groupId)

\* max(0, vested - claimed) of an investor whose group is in the registry
VestedUnclaimed(s, a, timestamp) ==
    LET record == s.investors[a]
        vested == computeVestedAmount(s, record.totalAllocation, s.groups[record.groupId],
                                      timestamp)
    IN  IF vested > record.claimed THEN vested - record.claimed ELSE 0

\* what get_claimable has to return for the account
ClaimableAsSpecified(s, a, timestamp) ==
    get_claimable(s, a, timestamp).out =
        Some(IF ~Has(s.investors, a) \/ Orphaned(s, a) THEN 0
             ELSE VestedUnclaimed(s, a, timestamp))

\* the callback of the chain, run by the contract with the outcome of the transfer
Resolution(rec) ==
    IF rec.kind = "claim"
    THEN on_claim_complete(contract, Self, rec.account, rec.amount, rec.result = "ok")
    ELSE on_withdraw_complete(contract, Self, rec.account, rec.amount, rec.result = "ok")

\* C18: in every state get_claimable returns 0 for an account without record and for
\* an investor whose group is not in the registry, and max(0, vested - claimed) for
\* every other investor, so also once configure_groups has restored the group; a
\* claim for an investor without group fails with 'Nothing to claim at this time' and
\* changes nothing; and no claim, upsert_investors or callback changes claimed of an
\* investor without group.
OrphanClaimsNothing ==
    /\ \A a \in InvestorIds \cup {Owner} : ClaimableAsSpecified(contract, a, now)
    /\ Idle =>
        \A a \in DOMAIN contract.investors :
            Orphaned(contract, a) =>
                LET KeepsClaimed(r) ==
                        /\ Has(After(r).investors, a)
                        /\ After(r).investors[a].claimed = contract.investors[a].claimed
                IN  /\ \A in \in ClaimInputs :
                           LET r == requireInit(contract,
                                        claim(contract, in[1], in[2], in[3], now))
                               claimant == OrElse(in[3], in[1])
                           IN  /\ KeepsClaimed(r)
                               /\ (/\ in[2] = ONE_YOCTO
                                   /\ claimant = in[1] \/ in[1] = contract.owner
                                   /\ claimant = a) =>
                                      /\ r.err = NothingToClaim
                                      /\ After(r) = contract
                                      /\ r.out = None
                    /\ \A caller \in OwnerOrNot, investors \in Batches :
                           KeepsClaimed(Upsert(caller, investors))
                    /\ \A c \in Chains :
                           (IsPayout(c) /\ c.result # "pending") => KeepsClaimed(Resolution(c))

\* C18 witness: an investor who has claimed part of the allocation, and whose group has
\* been dropped from the registry, was refused a claim although the pool holds tokens
\* and the allocation is not used up.
OrphanClaimsNothingWitness ==
    /\ last = [op |-> "claim", err |-> NothingToClaim]
    /\ Orphaned(contract, Alice)
    /\ contract.investors[Alice].claimed > 0
    /\ contract.investors[Alice].claimed < contract.investors[Alice].totalAllocation
    /\ contract.poolBalance > 0

\* the result of the call configure_initial_claim(overlay) by caller
ConfigureInitialClaim(caller, overlay) ==
    requireInit(contract, configure_initial_claim(contract, caller, overlay[1], overlay[2]))

NoOverlayParameter == "At least one initial claim parameter must be provided"
OverlayTimestampMissing == "initial_claim_available_timestamp_ns must be provided when basis > 0"

\* C21: whenever the owner can call configure_initial_claim on the initialized
\* contract: a call with neither field, with basis points outside [0, 10000], or
\* resulting in basis points > 0 with the availability timestamp 0 (not set) is
\* rejected; every rejected call leaves both overlay fields, and everything else, as
\* they were; an accepted call sets the supplied fields and leaves a field that was
\* not supplied, and everything else, as it was.
OverlayChecked ==
    (Idle /\ contract.initialized) => \A overlay \in VestingOverlayInputs :
        LET r == ConfigureInitialClaim(contract.owner, overlay)
            bps == OrElse(overlay[1], contract.initialClaimBasisPoints)
            ts == OrElse(overlay[2], contract.initialClaimAvailableTimestampNs)
        IN  /\ (~IsSome(overlay[1]) /\ ~IsSome(overlay[2])) => r.err = NoOverlayParameter
            /\ (bps < 0 \/ bps > BASIS_POINTS_DENOMINATOR) => r.err # OK
            /\ (bps > 0 /\ ts = 0) => r.err # OK
            /\ (/\ IsSome(overlay[1]) \/ IsSome(overlay[2])
                /\ bps \in 1..BASIS_POINTS_DENOMINATOR
                /\ ts = 0) => r.err = OverlayTimestampMissing
            /\ r.err # OK =>
                   /\ After(r).initialClaimBasisPoints = contract.initialClaimBasisPoints
                   /\ After(r).initialClaimAvailableTimestampNs =
                          contract.initialClaimAvailableTimestampNs
                   /\ After(r) = contract
            /\ r.err = OK =>
                   After(r) = [contract EXCEPT !.initialClaimBasisPoints = bps,
                                               !.initialClaimAvailableTimestampNs = ts]

\* C21 witness: the owner asked for basis points > 0 alone while no availability
\* timestamp was set, and was refused; the basis points are still 0.
OverlayCheckedWitness ==
    /\ last = [op |-> "configure_initial_claim", err |-> OverlayTimestampMissing]
    /\ contract.initialClaimBasisPoints = 0
    /\ contract.initialClaimAvailableTimestampNs = 0
    /\ Has(contract.investors, Alice)

\* the investors whose group is in the registry
Grouped == {a \in DOMAIN contract.investors : Has(contract.groups, contract.investors[a].groupId)}
\* the group of the investor
GroupOf(a) == contract.groups[contract.investors[a].groupId]
\* tgeTimestamp + cliffDuration of the investor's group
CliffEnd(a) == contract.tgeTimestampNs + GroupOf(a).cliffDurationNs
\* tgeTimestamp + cliffDuration + vestingDuration of the investor's group
VestingEnd(a) == CliffEnd(a) + GroupOf(a).vestingDurationNs
\* what get_claimable returns for the account at the current block timestamp
Claimable(a) == Get(get_claimable(contract, a, now).out)
\* the result of claim() by the account with one yoctoNEAR attached
ClaimBy(a) == requireInit(contract, claim(contract, a, ONE_YOCTO, None, now))

\* C22: at every time before tgeTimestamp + cliffDuration of an investor's group,
\* while initialClaimBasisPoints = 0, the investor's claimable amount is 0.
NothingBeforeCliff ==
    \A a \in Grouped :
        (now < CliffEnd(a) /\ contract.initialClaimBasisPoints = 0) => Claimable(a) = 0

\* C22 witness: one instant before the end of a cliff of 2, an investor of the funded
\* pool whose group unlocks everything at the cliff was refused a claim.
NothingBeforeCliffWitness ==
    /\ last = [op |-> "claim", err |-> NothingToClaim]
    /\ Alice \in Grouped
    /\ now = CliffEnd(Alice) - 1
    /\ GroupOf(Alice).cliffDurationNs = 2
    /\ GroupOf(Alice).initialUnlockBasisPoints = BASIS_POINTS_DENOMINATOR
    /\ contract.initialClaimBasisPoints = 0
    /\ contract.poolBalance > 0

\* C23: at every time from tgeTimestamp + cliffDuration + vestingDuration of an
\* investor's group on, the investor's claimable amount is totalAllocation - claimed,
\* whatever the overlay (also with an availability timestamp still in the future) and
\* whatever the instant unlock of the group.
FullUnlock ==
    \A a \in Grouped :
        now >= VestingEnd(a) =>
            Claimable(a) = contract.investors[a].totalAllocation - contract.investors[a].claimed

\* C23 witness: exactly at the end of a vesting period of more than one instant, with
\* an initial claim of 50% that is not yet available, an investor who had claimed
\* before has claimed all the rest.
FullUnlockWitness ==
    /\ Alice \in Grouped
    /\ now = VestingEnd(Alice)
    /\ GroupOf(Alice).vestingDurationNs > 1
    /\ contract.initialClaimBasisPoints = 5000
    /\ contract.initialClaimAvailableTimestampNs > now
    /\ contract.investors[Alice].claimed = contract.investors[Alice].totalAllocation
    /\ \E c \in Chains : c.kind = "claim" /\ c.account = Alice /\ c.result = "pending"
                         /\ c.amount < contract.investors[Alice].totalAllocation

\* the investor has claimed nothing, the group has a vesting period and no instant
\* unlock, no initial claim is configured, and the time is tgeTimestamp +
\* cliffDuration + vestingDuration/2
Halfway(a) ==
    /\ contract.investors[a].claimed = 0
    /\ GroupOf(a).vestingDurationNs > 0
    /\ GroupOf(a).initialUnlockBasisPoints = 0
    /\ contract.initialClaimBasisPoints = 0
    /\ now = CliffEnd(a) + BigIntDiv(GroupOf(a).vestingDurationNs, 2)

\* C24 as claimed: halfway through the vesting period claimable differs from
\* totalAllocation/2 by at most one unit for each integer division (three of them:
\* vestingDuration/2, totalAllocation/2 and the division of the linear part), for
\* every totalAllocation and every vestingDuration > 0.
HalfwayWithinRounding ==
    \A a \in Grouped :
        Halfway(a) =>
            Abs(Claimable(a) - BigIntDiv(contract.investors[a].totalAllocation, 2))
                <= 3

\* C24: halfway through the vesting period claimable is at most totalAllocation/2 and
\* falls short of it by at most totalAllocation/(2 * vestingDuration) + 1; for an even
\* vestingDuration it is floor(totalAllocation/2).
HalfwayHalf ==
    \A a \in Grouped :
        Halfway(a) =>
            LET total == contract.investors[a].totalAllocation
                vesting == GroupOf(a).vestingDurationNs
                short == BigIntDiv(total, 2) - Claimable(a)
            IN  /\ short >= 0
                /\ 2 * vesting * short <= total + 2 * vesting
                /\ vesting % 2 = 0 => short = 0

\* C24 witness: halfway (1 of 3) through a vesting period of 3, 2 of an allocation of
\* 8 are claimable.
HalfwayHalfWitness ==
    /\ Alice \in Grouped
    /\ Halfway(Alice)
    /\ GroupOf(Alice).vestingDurationNs = 3
    /\ contract.investors[Alice].totalAllocation = 8
    /\ Claimable(Alice) = 2
    /\ contract.poolBalance > 0

Min(x, y) == IF x < y THEN x ELSE y

\* vestedAmount as specified: the initial portion is 0 until its timestamp is reached,
\* and what remains after it, the portion unlocked at the cliff and the base of the
\* linear part are taken from that value
SpecifiedVestedAmount(total, group, s, timestamp) ==
    LET initialPortion ==
            IF timestamp >= s.initialClaimAvailableTimestampNs
            THEN Min(total, (total * s.initialClaimBasisPoints) \div 10000)
            ELSE 0
        remainingAfterInitial == total - initialPortion
        postCliffPortion ==
            Min(remainingAfterInitial, (total * group.initialUnlockBasisPoints) \div 10000)
        linearBase == total - initialPortion - postCliffPortion
        elapsed == timestamp - (s.tgeTimestampNs + group.cliffDurationNs)
    IN  IF timestamp < s.tgeTimestampNs + group.cliffDurationNs THEN initialPortion
        ELSE IF group.vestingDurationNs = 0 \/ elapsed >= group.vestingDurationNs THEN total
        ELSE initialPortion + postCliffPortion
                 + (linearBase * elapsed) \div group.vestingDurationNs

\* C25: for every allocation, group, overlay and time, computeVestedAmount returns
\* the specified vestedAmount.
VestedAsSpecified ==
    \A a \in Grouped :
        computeVestedAmount(contract, contract.investors[a].totalAllocation, GroupOf(a), now)
            = SpecifiedVestedAmount(contract.investors[a].totalAllocation, GroupOf(a),
                                    contract, now)

\* C26: for an investor who has claimed nothing, in a group with instant-unlock basis
\* points b and vestingDuration > 0, with no initial claim configured: at tgeTimestamp
\* + cliffDuration exactly claimable = floor(totalAllocation * b / 10000), and from
\* there to the end of the vesting period claimable is at least that amount and exceeds
\* it by floor(linearBase * elapsed / vestingDuration) only, where linearBase is
\* totalAllocation less the instant amount.
InstantUnlockAtCliff ==
    \A a \in Grouped :
        LET total == contract.investors[a].totalAllocation
            instant == (total * GroupOf(a).initialUnlockBasisPoints) \div 10000
            elapsed == now - CliffEnd(a)
        IN  (/\ contract.investors[a].claimed = 0
             /\ GroupOf(a).vestingDurationNs > 0
             /\ contract.initialClaimBasisPoints = 0
             /\ CliffEnd(a) <= now
             /\ now < VestingEnd(a)) =>
                /\ now = CliffEnd(a) => Claimable(a) = instant
                /\ Claimable(a) >= instant
                /\ Claimable(a) - instant
                       = ((total - instant) * elapsed) \div GroupOf(a).vestingDurationNs

\* C26 witness: one instant after the cliff of a group that unlocks 25% at the cliff
\* and vests over 4, 3 of an allocation of 8 are claimable: 2 at once and 1 accrued.
InstantUnlockAtCliffWitness ==
    /\ Alice \in Grouped
    /\ contract.investors[Alice] = [groupId |-> "g1", totalAllocation |-> 8, claimed |-> 0]
    /\ GroupOf(Alice).initialUnlockBasisPoints = 2500
    /\ GroupOf(Alice).vestingDurationNs = 4
    /\ contract.initialClaimBasisPoints = 0
    /\ now = CliffEnd(Alice) + 1
    /\ Claimable(Alice) = 3
    /\ contract.poolBalance > 0

\* C27: whenever the owner can call configure_groups: configuring a group with
\* initial_unlock_basis_points = 0 and configuring the same group without the field
\* are both accepted and leave contracts in which every investor has the same
\* claimable amount, whatever the time, the allocation, the claimed amount and the
\* overlay.
ZeroUnlockIsOmitted ==
    (Idle /\ contract.initialized) =>
        \A c \in VestingCliffs, v \in VestingDurations :
            LET zero == ConfigureGroups(contract.owner, <<Group("g1", c, v, Some(0))>>)
                omitted == ConfigureGroups(contract.owner, <<Group("g1", c, v, None)>>)
            IN  /\ zero.err = OK
                /\ omitted.err = OK
                /\ \A a \in DOMAIN contract.investors :
                       get_claimable(After(zero), a, now).out
                           = get_claimable(After(omitted), a, now).out

\* C27 witness: in a group with 0 instant-unlock basis points, with an initial claim
\* of 50% available, an investor who has claimed part of the allocation can claim
\* more during the vesting period.
ZeroUnlockIsOmittedWitness ==
    /\ Idle
    /\ Alice \in Grouped
    /\ GroupOf(Alice).initialUnlockBasisPoints = 0
    /\ contract.initialClaimBasisPoints = 5000
    /\ contract.initialClaimAvailableTimestampNs <= now
    /\ contract.investors[Alice].claimed > 0
    /\ CliffEnd(Alice) < now /\ now < VestingEnd(Alice)
    /\ Claimable(Alice) > 0

\* min(total, floor(total * initialClaimBasisPoints / 10000)) of the investor
InitialPortion(a) ==
    Min(contract.investors[a].totalAllocation,
        (contract.investors[a].totalAllocation * contract.initialClaimBasisPoints) \div 10000)

WithoutOverlay(s) ==
    [s EXCEPT !.initialClaimBasisPoints = 0, !.initialClaimAvailableTimestampNs = 0]

\* the vested amount of a schedule without initial claim: nothing before the cliff,
\* the instant unlock at the cliff, the rest linearly over the vesting period
VestedWithoutOverlay(total, group, tge, timestamp) ==
    LET instant == (total * group.initialUnlockBasisPoints) \div 10000
        elapsed == timestamp - (tge + group.cliffDurationNs)
    IN  IF elapsed < 0 THEN 0
        ELSE IF elapsed >= group.vestingDurationNs THEN total
        ELSE instant + ((total - instant) * elapsed) \div group.vestingDurationNs

\* C29: with initialClaimBasisPoints = 0 the overlay is a no-op whatever its
\* timestamp, reached or not: for every investor, group and time the vested amount is
\* the one of the same contract without overlay, which is the amount of the schedule
\* of the group alone; before the cliff claimable is 0 and claim fails with 'Nothing
\* to claim at this time'.
ZeroInitialClaimIsNoOverlay ==
    contract.initialClaimBasisPoints = 0 =>
        \A a \in Grouped :
            LET total == contract.investors[a].totalAllocation
                vested == computeVestedAmount(contract, total, GroupOf(a), now)
            IN  /\ vested = computeVestedAmount(WithoutOverlay(contract), total, GroupOf(a), now)
                /\ vested = VestedWithoutOverlay(total, GroupOf(a), contract.tgeTimestampNs, now)
                /\ now < CliffEnd(a) =>
                       /\ Claimable(a) = 0
                       /\ Idle => ClaimBy(a).err = NothingToClaim

\* C29 witness: with an initial claim of 0% whose timestamp is reached, an investor of
\* the funded pool was refused a claim before the cliff.
ZeroInitialClaimIsNoOverlayWitness ==
    /\ last = [op |-> "claim", err |-> NothingToClaim]
    /\ contract.initialClaimBasisPoints = 0
    /\ contract.initialClaimAvailableTimestampNs > 0
    /\ contract.initialClaimAvailableTimestampNs <= now
    /\ Alice \in Grouped
    /\ now < CliffEnd(Alice)
    /\ contract.investors[Alice].claimed = 0
    /\ contract.poolBalance >= contract.investors[Alice].totalAllocation

MissingMinimalDeposit == "Requires attached deposit of exactly 1 yoctoNEAR"
\* near.attachedDeposit(): nothing, one yoctoNEAR, more
AttachedDeposits == {NO_DEPOSIT, ONE_YOCTO, 2, 3}

\* C30: whenever a method can be called on the initialized contract: claim with an
\* attached deposit other than 1 yoctoNEAR, be it 0 or more than 1, throws 'Requires
\* attached deposit of exactly 1 yoctoNEAR', and so does withdraw_unallocated called
\* by the owner; the call changes nothing and requests no transfer. With exactly 1
\* yoctoNEAR attached neither method throws that error.
ExactlyOneYocto ==
    (Idle /\ contract.initialized) =>
        \A deposit \in AttachedDeposits :
            LET Checked(r) ==
                    IF deposit = ONE_YOCTO THEN r.err # MissingMinimalDeposit
                    ELSE /\ r.err = MissingMinimalDeposit
                         /\ After(r) = contract
                         /\ r.out = None
            IN  /\ \A caller \in Callers, account_id \in {None, Some(Alice), Some(Bob)} :
                       Checked(requireInit(contract,
                                   claim(contract, caller, deposit, account_id, now)))
                /\ \A amount \in {None, Some(0), Some(2)}, recipient \in {None, Some(Self)} :
                       Checked(requireInit(contract,
                                   withdraw_unallocated(contract, contract.owner, deposit,
                                                        amount, recipient)))

\* C30 witness: a call of claim without exactly 1 yoctoNEAR was refused while the
\* pool held what its caller could otherwise claim.
ExactlyOneYoctoWitness ==
    /\ last = [op |-> "claim", err |-> MissingMinimalDeposit]
    /\ computeClaimable(contract, Alice, now) > 0
    /\ contract.poolBalance >= computeClaimable(contract, Alice, now)
    /\ receipts = EmptyBag

\* claim for the investor is refused with 'Nothing to claim at this time', whether the
\* investor or the owner calls it, changes nothing and requests no transfer
ClaimRefusedAsNothing(a) ==
    \A in \in {<<a, None>>, <<contract.owner, Some(a)>>} :
        LET r == requireInit(contract, claim(contract, in[1], ONE_YOCTO, in[2], now))
        IN  /\ r.err = NothingToClaim
            /\ After(r) = contract
            /\ r.out = None

ClaimsInFlight(a) == {c \in Chains : c.kind = "claim" /\ c.account = a}

\* C32: whenever no claim of an investor is in flight, the tokens the token contract
\* has delivered to the investor through claims equal the investor's claimed.
DeliveredEqualsClaimed ==
    \A a \in DOMAIN contract.investors :
        ClaimsInFlight(a) = {} => Lookup(paid.claim, a) = contract.investors[a].claimed

\* C33: right after the synchronous phase of an accepted claim, while its transfer is
\* still pending, get_claimable for the account at the same time is 0 and a second
\* claim for it at that time, by the investor or by the owner, fails with 'Nothing to
\* claim at this time'.
ClaimedOnceAtATime ==
    (Idle /\ contract.initialized) =>
        \A in \in VestingClaimInputs :
            LET r == requireInit(contract, claim(contract, in[1], in[2], in[3], now))
                claimant == OrElse(in[3], in[1])
            IN  r.err = OK =>
                    /\ Get(r.out).result = "pending"
                    /\ Get(get_claimable(After(r), claimant, now).out) = 0
                    /\ \A again \in VestingClaimInputs :
                           claim(After(r), again[1], again[2], again[3], now).err
                               = NothingToClaim

\* C33 witness: alice's claim is pending and a second claim for her at the same time
\* was refused.
ClaimedOnceAtATimeWitness ==
    /\ last = [op |-> "claim", err |-> NothingToClaim]
    /\ \E c \in ClaimsInFlight(Alice) : c.result = "pending"
    /\ IsSome(snap) /\ Get(snap).open /\ Get(snap).chain.account = Alice
    /\ contract.investors[Alice].claimed > 0
    /\ contract.investors[Alice].claimed < contract.investors[Alice].totalAllocation
    /\ Claimable(Alice) = 0

\* the callback of the latest accepted claim or withdrawal has just run with a
\* succeeded transfer, and nothing else was executed after the call was accepted
Committed(kind) ==
    /\ IsSome(snap)
    /\ ~Get(snap).open
    /\ Get(snap).chain.kind = kind
    /\ Get(snap).chain.result = "ok"

\* the callback of the chain, run by the contract with the transfer reported succeeded
ResolutionOfSuccess(rec) ==
    IF rec.kind = "claim"
    THEN on_claim_complete(contract, Self, rec.account, rec.amount, TRUE)
    ELSE on_withdraw_complete(contract, Self, rec.account, rec.amount, TRUE)

\* C34: the callback of a claim or withdrawal whose transfer succeeded returns without
\* changing any investor record or pool counter, so that right after it the contract
\* is the contract before the call with the optimistic mutation applied.
SuccessChangesNothing ==
    /\ (Idle /\ contract.initialized) =>
           \A rec \in Chains :
               (IsPayout(rec) /\ rec.result = "ok") =>
                   LET r == ResolutionOfSuccess(rec)
                   IN  r.err = OK /\ After(r) = contract
    /\ Committed("claim") =>
           contract = claimEffect(Get(snap).pre, Get(snap).chain.account,
                                  Get(snap).chain.amount)
    /\ Committed("withdraw") =>
           contract = withdrawEffect(Get(snap).pre, Get(snap).chain.amount)

\* C34 witness: on_claim_complete has just run for alice's paid claim, and the pool
\* and her record still carry the claim.
SuccessChangesNothingWitness ==
    /\ Committed("claim")
    /\ Get(snap).chain.account = Alice
    /\ Lookup(paid.claim, Alice) = contract.investors[Alice].claimed
    /\ contract.investors[Alice].claimed > 0
    /\ contract.poolBalance = contract.totalDeposited - contract.totalClaimed

\* the number of chains in flight that equal c
Copies(bag, c) == IF c \in BagToSet(bag) THEN bag[c] ELSE 0

\* Pending until the token contract reports the transfer's outcome, which changes
\* nothing in the contract; then the callback runs once and the chain is gone
LeavesInOrder(c) ==
    IF c.result = "pending"
    THEN /\ \E outcome \in {"ok", "failed"} :
                receipts' = Add(Remove(receipts, c), [c EXCEPT !.result = outcome])
         /\ contract' = contract
    ELSE /\ receipts' = Remove(receipts, c)
         /\ contract' = Commit(contract, Resolution(c))

\* a chain starts Pending, with the synchronous phase of an accepted claim or withdrawal
StartsPending(c) ==
    /\ c.result = "pending"
    /\ receipts' = Add(receipts, c)
    /\ \/ c.kind = "claim" /\ contract' = claimEffect(contract, c.account, c.amount)
       \/ c.kind = "withdraw" /\ contract' = withdrawEffect(contract, c.amount)

\* a callback that takes a failed transfer back uses up its chain: it cannot run again
Lifecycle ==
    /\ \A c \in Chains :
           (IsPayout(c) /\ Copies(receipts', c) < Copies(receipts, c)) => LeavesInOrder(c)
    /\ \A c \in BagToSet(receipts') :
           (IsPayout(c) /\ c.result = "pending"
                       /\ Copies(receipts', c) > Copies(receipts, c)) => StartsPending(c)
    /\ (last' # last /\ last' \in {FailedClaim, FailedWithdraw}) =>
           \E c \in Chains :
               IsPayout(c) /\ c.result = "failed" /\ receipts' = Remove(receipts, c)

\* the claims and withdrawals that can be in flight: <<kind, account, amount>>
Operations ==
    ({"claim"} \X InvestorIds \X (1..MaxDeposited))
    \cup ({"withdraw"} \X {Owner, Self} \X {Get(in[3]) : in \in {w \in WithdrawInputs : IsSome(w[3])}})

\* the operation is Pending: its transfer or its callback has not run yet
Pending(o) ==
    \E c \in Chains : c.kind = o[1] /\ c.account = o[2] /\ c.amount = o[3]

Compensated(s, a, amount) ==
    [s EXCEPT !.investors[a].claimed = s.investors[a].claimed - amount,
              !.totalClaimed = s.totalClaimed - amount,
              !.poolBalance = s.poolBalance + amount]

\* C36: whatever ran between a claim and its resolution, the run of on_claim_complete
\* for a failed transfer leaves the contract as it was before that run with amount taken
\* from the investor's claimed and from totalClaimed and added to poolBalance.
FailedClaimCompensates ==
    [][\A rec \in Chains :
          (rec.kind = "claim" /\ rec.result = "failed" /\ ResolveClaim(rec)) =>
              contract' = Compensated(contract, rec.account, rec.amount)]_vars

\* C37: right after on_claim_complete has run for a claim of amount a whose transfer
\* failed, with nothing else executed since the claim, the account's claimable at the
\* present and at every later time is at least a, and a new claim by the account is
\* granted whenever poolBalance covers its claimable.
ClaimableAgainAfterRollback ==
    RolledBack("claim") =>
        LET a == Get(snap).chain.account
            amount == Get(snap).chain.amount
        IN  /\ \A t \in now..MaxTime : computeClaimable(contract, a, t) >= amount
            /\ poolCovers(contract, computeClaimable(contract, a, now)) =>
                   claim(contract, a, ONE_YOCTO, None, now).err = OK

\* the amount vested for the investor at the timestamp under the stored configuration
VestedAt(a, timestamp) ==
    computeVestedAmount(contract, contract.investors[a].totalAllocation, GroupOf(a), timestamp)

\* the instants of every schedule: those up to the end of the longest vesting, and
\* those around the latest overlay timestamp
VestingInstants == (0..(MaxVestingTime + 1)) \cup {FarFuture - 1, FarFuture, FarFuture + 1}
LaterInstant(t) == IF t + 1 \in VestingInstants THEN t + 1 ELSE FarFuture - 1

\* C38: for every stored allocation, group and overlay, the vested amount is at least 0
\* and at most totalAllocation at every instant, and does not decrease from any
\* instant to the one after it, hence not between any two instants t1 <= t2: before
\* and after the overlay's timestamp, the cliff and the end of vesting.
VestedNeverDecreases ==
    contract.initialized =>
        \A a \in Grouped :
            \A t \in VestingInstants \ {FarFuture + 1} :
                LET v1 == VestedAt(a, t)
                    v2 == VestedAt(a, LaterInstant(t))
                IN  /\ 0 <= v1
                    /\ v1 <= v2
                    /\ v2 <= contract.investors[a].totalAllocation

\* C38 witness: alice has claimed under a schedule whose vested amount steps up at
\* the overlay's timestamp, at the cliff and at the end of vesting.
VestedNeverDecreasesWitness ==
    /\ Alice \in Grouped
    /\ contract.investors[Alice].claimed > 0
    /\ contract.initialClaimBasisPoints > 0
    /\ contract.initialClaimAvailableTimestampNs > 0
    /\ VestedAt(Alice, contract.initialClaimAvailableTimestampNs - 1)
           < VestedAt(Alice, contract.initialClaimAvailableTimestampNs)
    /\ GroupOf(Alice).cliffDurationNs > 0
    /\ VestedAt(Alice, CliffEnd(Alice) - 1) < VestedAt(Alice, CliffEnd(Alice))
    /\ GroupOf(Alice).vestingDurationNs > 0
    /\ VestedAt(Alice, VestingEnd(Alice) - 1) < VestedAt(Alice, VestingEnd(Alice))

\* C39: in every reachable state, between the phases of deposits, claims and
\* withdrawals and after their resolutions, the balance of the contract's account at
\* the token contract is at least poolBalance.
TokenBalanceCoversPool == getBalance(token, Self) >= contract.poolBalance

\* C39 witness: after a paid withdrawal and a claim whose transfer failed, a further
\* claim is between its phases, and the contract holds more than the pool records.
TokenBalanceCoversPoolWitness ==
    /\ paid.withdraw > 0
    /\ contract.totalClaimed > SumMap(paid.claim, DOMAIN paid.claim) + InFlight(PendingPayouts)
    /\ \E c \in PendingPayouts : c.kind = "claim"
    /\ getBalance(token, Self) > contract.poolBalance

\* the sum of claimed over the investor records
ClaimedSum(s) ==
    SumMap([a \in DOMAIN s.investors |-> s.investors[a].claimed], DOMAIN s.investors)

====
